---- MODULE Spec2Model ----
(***************************************************************************)
(* Bounter: the model-session orchestrator (bounter/agent.py) and the scan  *)
(* report it feeds (bounter/reporting.py).                                  *)
(*                                                                          *)
(* Strings are sequences of tokens (a word, "_" for a blank), so that       *)
(* lower(), strip(), the `in` substring test and string formatting are      *)
(* computed.  An optional value (None or a value) is a sequence of length   *)
(* 0 or 1.                                                                  *)
(***************************************************************************)
EXTENDS Integers, Sequences, FiniteSets, TLC

(***************************************************************************)
(* Bounds of the model.                                                     *)
(***************************************************************************)
\* longest models_order a configuration carries
MaxModels == 2
\* most chunks one stream yields
MaxChunks == 3
\* responses and chunks handed to one report and its display
MaxUpdates == 2
\* backend calls issued over the life of one agent
MaxCalls == 5
\* calls of run() on one agent
MaxRuns == 2

ModelNames == {"m1", "m2"}

None == <<>>
Some(v) == <<v>>
Truthy(s) == s # <<>>

(***************************************************************************)
(* str helpers                                                              *)
(***************************************************************************)
\* str.lower(), token by token
LowerTok(t) ==
    CASE t = "Quota" -> "quota"
      [] t = "Server" -> "server"
      [] t = "Overloaded" -> "overloaded"
      [] t = "Model" -> "model"
      [] t = "NoneType" -> "nonetype"
      [] t = "Thought" -> "thought"
      [] t = "THOUGHT" -> "thought"
      [] OTHER -> t

Lower(s) == [i \in 1..Len(s) |-> LowerTok(s[i])]

\* keyword in text
Contains(s, k) ==
    \E i \in 0..(Len(s) - Len(k)) : SubSeq(s, i + 1, i + Len(k)) = k

\* str.strip()
IsBlankTok(t) == t = "_"

RECURSIVE LStrip(_)
LStrip(s) ==
    IF s # <<>> /\ IsBlankTok(Head(s)) THEN LStrip(Tail(s)) ELSE s

RECURSIVE RStrip(_)
RStrip(s) ==
    IF s # <<>> /\ IsBlankTok(s[Len(s)])
    THEN RStrip(SubSeq(s, 1, Len(s) - 1))
    ELSE s

Strip(s) == RStrip(LStrip(s))

\* sep.join(items)
RECURSIVE Join(_, _)
Join(sep, items) ==
    IF items = <<>> THEN <<>>
    ELSE IF Len(items) = 1 THEN items[1]
    ELSE items[1] \o sep \o Join(sep, Tail(items))

RECURSIVE Flatten(_)
Flatten(ss) == IF ss = <<>> THEN <<>> ELSE Head(ss) \o Flatten(Tail(ss))

\* the last n elements, s[-n:]
LastN(s, n) == IF Len(s) <= n THEN s ELSE SubSeq(s, Len(s) - n + 1, Len(s))

SeqToSet(s) == {s[i] : i \in 1..Len(s)}

(***************************************************************************)
(* Response objects.                                                        *)
(*   part      [text, thought, role, kind_, parts, dump]                    *)
(*     text    the text ("" and None are both falsy and are one value <<>>) *)
(*     thought the marker: [tag |-> "none"], [tag |-> "bool", b |-> ...],   *)
(*             [tag |-> "num", n |-> ...] for a number or                   *)
(*             [tag |-> "node", node |-> ...] for any other object          *)
(*     role, kind_  optional strings                                        *)
(*     parts   nested parts of the object, <<>> when it has none            *)
(*     dump    whether the object exposes model_dump()/to_dict()            *)
(*   candidate [index, content]; content is optional [role, parts]          *)
(*   response  [candidates, usage_metadata, prompt_feedback, response_id,   *)
(*              model_version]; candidates is an optional list              *)
(***************************************************************************)
NoMarker == [tag |-> "none"]
BoolMarker(b) == [tag |-> "bool", b |-> b]
NodeMarker(n) == [tag |-> "node", node |-> n]
NumMarker(n) == [tag |-> "num", n |-> n]

Node(text, parts, dump) == [text |-> text, parts |-> parts, dump |-> dump]

Part(text, marker) ==
    [text |-> text, thought |-> marker, role |-> None, kind_ |-> None,
     parts |-> <<>>, dump |-> TRUE]

PartWith(text, marker, role, kind) ==
    [Part(text, marker) EXCEPT !.role = role, !.kind_ = kind]

\* a number seen as a node: no text, no parts, no model_dump
NumberNode == [text |-> <<>>, parts |-> <<>>, dump |-> FALSE]

Content(role, parts) == [role |-> role, parts |-> parts]

Candidate(index, content) == [index |-> index, content |-> content]

Usage(th, out, tot) ==
    [thoughts_token_count |-> th, candidates_token_count |-> out,
     total_token_count |-> tot]

(***************************************************************************)
(* ScanReport                                                               *)
(***************************************************************************)
\* depth > 5 ends the recursion of _extract_text_segments
MaxDepth == 5

\* ScanReport(target, description): the dataclass defaults
NewReport ==
    [end_time |-> None,
     commands |-> <<>>,
     python_executor_invocations |-> 0,
     total_tool_invocations |-> 0,
     thinking_summary |-> <<>>,
     final_analysis |-> None,
     thinking_tokens |-> None,
     output_tokens |-> None,
     total_tokens |-> None]

\* datetime.now(timezone.utc)
Now == Some("now")

\* marker not in (None, False): a number equal to zero equals False
NotNoneNorFalse(marker) ==
    \/ marker.tag = "node"
    \/ marker.tag = "num" /\ marker.n # 0
    \/ marker.tag = "bool" /\ marker.b

\* the object a marker is, for _extract_text_segments
MarkerNode(marker) == IF marker.tag = "node" THEN marker.node ELSE NumberNode

\* a variant that reads the wrapping part instead of the marker structure
_resolve_thought_source_keeps_part(part) ==
    LET marker == part.thought IN
    IF marker.tag = "bool" THEN <<marker.b, part>>
    ELSE IF NotNoneNorFalse(marker) THEN <<TRUE, part>>
    ELSE IF part.role # None /\ Lower(part.role[1]) = <<"thought">>
         THEN <<TRUE, part>>
    ELSE IF part.kind_ # None /\ Contains(Lower(part.kind_[1]), <<"thought">>)
         THEN <<TRUE, part>>
    ELSE <<FALSE, part>>

\* a variant in which a role or kind of thought overrides thought=False
_resolve_thought_source_marker_last(part) ==
    LET marker == part.thought IN
    IF part.role # None /\ Lower(part.role[1]) = <<"thought">>
         THEN <<TRUE, part>>
    ELSE IF part.kind_ # None /\ Contains(Lower(part.kind_[1]), <<"thought">>)
         THEN <<TRUE, part>>
    ELSE IF marker.tag = "bool" THEN <<marker.b, part>>
    ELSE IF NotNoneNorFalse(marker) THEN <<TRUE, MarkerNode(marker)>>
    ELSE <<FALSE, part>>

\* _resolve_thought_source: <<is_thought, source>>
_resolve_thought_source(part) ==
    LET marker == part.thought IN
    IF marker.tag = "bool" THEN <<marker.b, part>>
    ELSE IF NotNoneNorFalse(marker) THEN <<TRUE, MarkerNode(marker)>>
    ELSE IF part.role # None /\ Lower(part.role[1]) = <<"thought">>
         THEN <<TRUE, part>>
    ELSE IF part.kind_ # None /\ Contains(Lower(part.kind_[1]), <<"thought">>)
         THEN <<TRUE, part>>
    ELSE <<FALSE, part>>

\* _extract_text_segments on a str
ExtractStr(s, depth) == IF depth > MaxDepth THEN <<>> ELSE <<s>>

\* _extract_text_segments on an object; a list of objects is one level of
\* its own, so the items of node.parts are visited at depth + 2
RECURSIVE _extract_text_segments(_, _)
_extract_text_segments(node, depth) ==
    IF depth > MaxDepth THEN <<>>
    ELSE
      LET text_segs ==
              IF Truthy(node.text) THEN ExtractStr(node.text, depth + 1) ELSE <<>>
          parts_segs ==
              IF node.parts # <<>> /\ depth + 1 <= MaxDepth
              THEN Flatten([i \in 1..Len(node.parts) |->
                               _extract_text_segments(node.parts[i], depth + 2)])
              ELSE <<>>
          \* dumped["text"]: None gives nothing; dumped["parts"] is a list of
          \* dicts, which carry no text attribute and give nothing
          dump_segs ==
              IF node.dump /\ Truthy(node.text)
              THEN ExtractStr(node.text, depth + 1)
              ELSE <<>>
      IN text_segs \o parts_segs \o dump_segs

\* the trimmed non-empty segments of one part
TrimmedSegments(source) ==
    LET segs == _extract_text_segments(source, 0)
        trimmed == [i \in 1..Len(segs) |-> Strip(segs[i])]
    IN SelectSeq(trimmed, LAMBDA t : t # <<>>)

\* the loop over parts of update_from_response: [thinking, final_chunks]
RECURSIVE SplitParts(_, _)
SplitParts(parts, acc) ==
    IF parts = <<>> THEN acc
    ELSE
      LET rs == _resolve_thought_source(Head(parts))
          segs == TrimmedSegments(rs[2])
      IN SplitParts(Tail(parts),
            IF rs[1]
            THEN [acc EXCEPT !.thinking = @ \o segs]
            ELSE [acc EXCEPT !.final_chunks = @ \o segs])

\* update_from_response overwriting final_analysis and the token counts
\* with what the response holds, also when it holds none
update_from_response_overwriting(report, response) ==
    LET r0 == [report EXCEPT !.end_time = Now] IN
    IF response.candidates = None THEN [report |-> r0, raised |-> TRUE]
    ELSE IF response.candidates[1] = <<>> THEN [report |-> r0, raised |-> FALSE]
    ELSE
      LET candidate == response.candidates[1][1]
          parts == IF candidate.content = None THEN <<>>
                   ELSE candidate.content[1].parts
          split == SplitParts(parts,
                      [thinking |-> r0.thinking_summary, final_chunks |-> <<>>])
          r1 == [r0 EXCEPT !.thinking_summary = split.thinking]
          r2 == IF split.final_chunks # <<>>
                THEN [r1 EXCEPT !.final_analysis =
                          Some(Join(<<"\n">>, split.final_chunks))]
                ELSE [r1 EXCEPT !.final_analysis = None]
          usage == response.usage_metadata
          r3 == IF usage # None
                THEN [r2 EXCEPT !.thinking_tokens = usage[1].thoughts_token_count,
                                !.output_tokens = usage[1].candidates_token_count,
                                !.total_tokens = usage[1].total_token_count]
                ELSE [r2 EXCEPT !.thinking_tokens = None,
                                !.output_tokens = None,
                                !.total_tokens = None]
      IN [report |-> r3, raised |-> FALSE]

\* update_from_response: [report, raised]; raised is the TypeError of
\* response.candidates[0] when candidates is None (only AttributeError and
\* IndexError are caught)
update_from_response(report, response) ==
    LET r0 == [report EXCEPT !.end_time = Now] IN
    IF response.candidates = None THEN [report |-> r0, raised |-> TRUE]
    ELSE IF response.candidates[1] = <<>> THEN [report |-> r0, raised |-> FALSE]
    ELSE
      LET candidate == response.candidates[1][1]
          parts == IF candidate.content = None THEN <<>>
                   ELSE candidate.content[1].parts
          split == SplitParts(parts,
                      [thinking |-> r0.thinking_summary, final_chunks |-> <<>>])
          r1 == [r0 EXCEPT !.thinking_summary = split.thinking]
          r2 == IF split.final_chunks # <<>>
                THEN [r1 EXCEPT !.final_analysis =
                          Some(Join(<<"\n">>, split.final_chunks))]
                ELSE r1
          usage == response.usage_metadata
          r3 == IF usage # None
                THEN [r2 EXCEPT !.thinking_tokens = usage[1].thoughts_token_count,
                                !.output_tokens = usage[1].candidates_token_count,
                                !.total_tokens = usage[1].total_token_count]
                ELSE r2
      IN [report |-> r3, raised |-> FALSE]

(***************************************************************************)
(* BounterAgent._stream_model_response                                      *)
(***************************************************************************)
Chunk(candidates, usage) ==
    [candidates |-> candidates, usage_metadata |-> usage,
     prompt_feedback |-> None, response_id |-> None, model_version |-> None,
     automatic_function_calling_history |-> None]

\* d[k] = v on a dict kept as a function
Put(d, k, v) == [x \in DOMAIN d \cup {k} |-> IF x = k THEN v ELSE d[x]]

\* d.setdefault(k, v)
SetDefault(d, k, v) == IF k \in DOMAIN d THEN d ELSE Put(d, k, v)

\* getattr(chunk, f, None) or old
OrElse(new, old) == IF new # None THEN new ELSE old

\* the aggregation state before the first chunk (lines 460-469); order is
\* the insertion order of candidate_meta
NewAggregation ==
    [final_chunk |-> None,
     order |-> <<>>,
     candidate_meta |-> <<>>,
     aggregated_roles |-> <<>>,
     aggregated_parts |-> <<>>,
     usage_metadata |-> None,
     prompt_feedback |-> None,
     response_id |-> None,
     model_version |-> None,
     afc_history |-> None,
     chunk_seen |-> FALSE]

\* a variant whose bucket keeps only the parts of the latest chunk
AggregateCandidateOverwriting(agg, idx, candidate) ==
    LET candidate_index == IF candidate.index = None THEN idx
                           ELSE candidate.index[1]
        a1 == [agg EXCEPT
                 !.order = IF candidate_index \in DOMAIN agg.candidate_meta
                           THEN @ ELSE Append(@, candidate_index),
                 !.candidate_meta = Put(@, candidate_index, candidate)]
    IN IF candidate.content = None THEN a1
       ELSE
         LET content == candidate.content[1]
             a2 == [a1 EXCEPT !.aggregated_roles =
                        SetDefault(@, candidate_index, content.role)]
         IN IF content.parts = <<>> THEN a2
            ELSE [a2 EXCEPT !.aggregated_parts =
                     Put(@, candidate_index, content.parts)]

\* one iteration of `for idx, candidate in enumerate(candidates)`;
\* idx is 0-based
AggregateCandidate(agg, idx, candidate) ==
    LET candidate_index == IF candidate.index = None THEN idx
                           ELSE candidate.index[1]
        a1 == [agg EXCEPT
                 !.order = IF candidate_index \in DOMAIN agg.candidate_meta
                           THEN @ ELSE Append(@, candidate_index),
                 !.candidate_meta = Put(@, candidate_index, candidate)]
    IN IF candidate.content = None THEN a1
       ELSE
         LET content == candidate.content[1]
             a2 == [a1 EXCEPT !.aggregated_roles =
                        SetDefault(@, candidate_index, content.role)]
         IN IF content.parts = <<>> THEN a2
            ELSE [a2 EXCEPT !.aggregated_parts =
                     Put(@, candidate_index,
                         (IF candidate_index \in DOMAIN @
                          THEN @[candidate_index] ELSE <<>>) \o content.parts)]

RECURSIVE AggregateCandidates(_, _, _)
AggregateCandidates(agg, candidates, idx) ==
    IF idx >= Len(candidates) THEN agg
    ELSE AggregateCandidates(
             AggregateCandidate(agg, idx, candidates[idx + 1]),
             candidates, idx + 1)

\* the body of `for chunk in stream`
AggregateChunk(agg, chunk) ==
    LET a1 == [agg EXCEPT
                 !.chunk_seen = TRUE,
                 !.final_chunk = Some(chunk),
                 !.usage_metadata = OrElse(chunk.usage_metadata, @),
                 !.prompt_feedback = OrElse(chunk.prompt_feedback, @),
                 !.response_id = OrElse(chunk.response_id, @),
                 !.model_version = OrElse(chunk.model_version, @),
                 !.afc_history =
                     OrElse(chunk.automatic_function_calling_history, @)]
        candidates == IF chunk.candidates = None THEN <<>>
                      ELSE chunk.candidates[1]
    IN AggregateCandidates(a1, candidates, 0)

RECURSIVE AggregateStream(_, _)
AggregateStream(agg, stream) ==
    IF stream = <<>> THEN agg
    ELSE AggregateStream(AggregateChunk(agg, Head(stream)), Tail(stream))

\* one iteration of `for idx, meta in candidate_meta.items()`
CombineCandidate(agg, idx) ==
    LET meta == agg.candidate_meta[idx]
        content == meta.content
        parts0 == IF idx \in DOMAIN agg.aggregated_parts
                  THEN agg.aggregated_parts[idx] ELSE <<>>
        parts == IF parts0 = <<>> /\ content # None
                 THEN content[1].parts ELSE parts0
        role0 == IF idx \in DOMAIN agg.aggregated_roles
                 THEN agg.aggregated_roles[idx] ELSE None
        role == IF role0 = None /\ content # None
                THEN content[1].role ELSE role0
        combined_content == IF parts # <<>> \/ role # None
                            THEN Some(Content(role, parts))
                            ELSE content
    IN Candidate(meta.index, combined_content)

\* a variant that hands back an empty response when no chunk was seen
FinishStreamWithoutChunkTest(agg) ==
    IF ~agg.chunk_seen
    THEN [raised |-> FALSE,
          response |-> Some(
             [candidates |-> None, usage_metadata |-> None,
              prompt_feedback |-> None, response_id |-> None,
              model_version |-> None,
              automatic_function_calling_history |-> None])]
    ELSE [raised |-> FALSE, response |-> agg.final_chunk]

\* after the stream ended (lines 501-545): [raised, response]
FinishStream(agg) ==
    IF ~agg.chunk_seen THEN [raised |-> TRUE, response |-> None]
    ELSE
      LET combined_candidates ==
              [i \in 1..Len(agg.order) |-> CombineCandidate(agg, agg.order[i])]
      IN IF combined_candidates = <<>>
         THEN [raised |-> FALSE, response |-> agg.final_chunk]
         ELSE [raised |-> FALSE,
               response |-> Some(
                  [candidates |-> Some(combined_candidates),
                   usage_metadata |-> agg.usage_metadata,
                   prompt_feedback |-> agg.prompt_feedback,
                   response_id |-> agg.response_id,
                   model_version |-> agg.model_version,
                   automatic_function_calling_history |-> agg.afc_history])]

\* a variant that compares the role as it is written
_is_thought_part_case_sensitive(part) ==
    LET marker == part.thought IN
    IF marker.tag = "bool" THEN marker.b
    ELSE IF NotNoneNorFalse(marker) THEN TRUE
    ELSE IF part.role # None /\ part.role[1] = <<"thought">> THEN TRUE
    ELSE IF part.kind_ # None /\ Contains(Lower(part.kind_[1]), <<"thought">>)
         THEN TRUE
    ELSE FALSE

\* BounterAgent._is_thought_part
_is_thought_part(part) ==
    LET marker == part.thought IN
    IF marker.tag = "bool" THEN marker.b
    ELSE IF NotNoneNorFalse(marker) THEN TRUE
    ELSE IF part.role # None /\ Lower(part.role[1]) = <<"thought">> THEN TRUE
    ELSE IF part.kind_ # None /\ Contains(Lower(part.kind_[1]), <<"thought">>)
         THEN TRUE
    ELSE FALSE

\* _stream_model_response over a whole stream of chunks
_stream_model_response(stream) == FinishStream(AggregateStream(NewAggregation, stream))

(***************************************************************************)
(* BounterAgent: classification and notes                                   *)
(***************************************************************************)
RATE_LIMIT_KEYWORDS ==
    {<<"rate", "_", "limit">>, <<"rate", "-", "limit">>, <<"quota">>,
     <<"too", "_", "many", "_", "requests">>, <<"429">>,
     <<"limit", "_", "reached">>}

INCOMPLETE_RESPONSE_RETRIES == 2

\* max_notes of _record_incomplete_response_note
max_notes == 5

\* an exception object: its class (ClientError or any other Exception), its
\* code and message attributes, and str(exc)
Exc(cls, code, message, str) ==
    [cls |-> cls, code |-> code, message |-> message, str |-> str]

\* RuntimeError("Model returned no streaming chunks")
EmptyStreamError ==
    Exc("Exception", None, <<>>,
        <<"Model", "_", "returned", "_", "no", "_", "streaming", "_", "chunks">>)

\* TypeError of None[0]
NoneSubscriptError ==
    Exc("Exception", None, <<>>,
        <<"NoneType", "_", "object", "_", "is", "_", "not", "_", "subscriptable">>)

\* RuntimeError("No models available to process the request")
NoModelsError ==
    Exc("Exception", None, <<>>,
        <<"No", "_", "models", "_", "available">>)

\* the parts the loop of _response_indicates_rate_limit visits
AllParts(response) ==
    IF response.candidates = None THEN <<>>
    ELSE Flatten([i \in 1..Len(response.candidates[1]) |->
            IF response.candidates[1][i].content = None THEN <<>>
            ELSE response.candidates[1][i].content[1].parts])

HasKeyword(text, keywords) == \E k \in keywords : Contains(Lower(text), k)

\* a variant that compares the keywords with the text as written
_response_indicates_rate_limit_case_sensitive(response) ==
    LET parts == AllParts(response) IN
    \E i \in 1..Len(parts) :
        /\ Truthy(parts[i].text)
        /\ \E k \in RATE_LIMIT_KEYWORDS : Contains(parts[i].text, k)

\* _response_indicates_rate_limit
_response_indicates_rate_limit(response) ==
    LET parts == AllParts(response) IN
    \E i \in 1..Len(parts) :
        /\ Truthy(parts[i].text)
        /\ HasKeyword(parts[i].text, RATE_LIMIT_KEYWORDS)

ERROR_KEYWORDS ==
    {<<"rate", "_", "limit">>, <<"quota">>,
     <<"too", "_", "many", "_", "requests">>, <<"overloaded">>,
     <<"unavailable">>, <<"exhausted">>}

\* a variant that looks at the message alone
_is_rate_limit_error_by_message(code, message) == HasKeyword(message, ERROR_KEYWORDS)

\* _is_rate_limit_error(code, message); code is optional
_is_rate_limit_error(code, message) ==
    \/ code \in {Some(429), Some(503)}
    \/ HasKeyword(message, ERROR_KEYWORDS)

\* the note text of _record_rate_limit_note
RateLimitNote(model_name, detail) ==
    <<"Model", model_name, "hit a rate/availability limit">>
        \o (IF Truthy(detail) THEN <<":">> \o detail ELSE <<>>)

\* _record_rate_limit_note
_record_rate_limit_note(notes, model_name, detail) ==
    LET note == RateLimitNote(model_name, detail) IN
    IF note \in SeqToSet(notes) THEN notes ELSE Append(notes, note)

\* a variant that keeps the first max_notes notes
_record_incomplete_response_note_keep_oldest(notes, note) ==
    IF note \in SeqToSet(notes) THEN notes
    ELSE LET appended == Append(notes, note) IN
         IF Len(appended) > max_notes THEN SubSeq(appended, 1, max_notes)
         ELSE appended

\* _record_incomplete_response_note
_record_incomplete_response_note(notes, note) ==
    IF note \in SeqToSet(notes) THEN notes
    ELSE LET appended == Append(notes, note) IN
         IF Len(appended) > max_notes THEN LastN(appended, max_notes)
         ELSE appended

\* the message of _handle_incomplete_response
IncompleteMessage(model_name, attempt) ==
    <<"Model", model_name, "returned no final analysis (attempt",
      ToString(attempt), "); prompting it to continue.">>

\* _handle_incomplete_response
_handle_incomplete_response(notes, model_name, attempt) ==
    _record_incomplete_response_note(notes, IncompleteMessage(model_name, attempt))

\* exhaustion_note of the response branch (line 387)
NoFinalExhaustionNote(model_name, attempt) ==
    <<"Model", model_name, "still produced no final analysis after",
      ToString(attempt), "attempts; switching models.">>

\* exhaustion_note of the exception branch (line 423)
NoChunksExhaustionNote(model_name, attempt) ==
    <<"Model", model_name, "never produced streaming chunks after",
      ToString(attempt), "attempts; switching models.">>

(***************************************************************************)
(* BounterAgent.run: the prompt of one attempt                              *)
(***************************************************************************)
\* build_prompt; target and description are opaque
build_prompt == <<"Test the web app at", "TARGET", "DESCRIPTION:", "DESC">>

\* a variant that adds context only after the first model
WantsContextAfterFirstModel(tried_models, rate_notes, incomplete_notes) ==
    Len(tried_models) > 1

\* the condition of lines 281-285
WantsContext(tried_models, rate_notes, incomplete_notes) ==
    \/ Len(tried_models) > 1
    \/ rate_notes # <<>>
    \/ incomplete_notes # <<>>

\* a variant that leaves the success flag out
CommandLineWithoutFlag(cmd) == <<"-">> \o cmd.command

\* the line of one command record (line 294)
CommandLine(cmd) ==
    <<"-">> \o cmd.command \o <<"(success=", ToString(cmd.success), ")">>

Bullet(line) == <<"-">> \o line

\* ITERATION_KEYWORDS, the ones that are a word of a command
ITERATION_KEYWORDS == {"for", "while", "seq", "xargs", "ffuf", "hydra"}

\* _looks_iterative_shell
_looks_iterative_shell(command_text) ==
    \E i \in 1..Len(command_text) : command_text[i] \in ITERATION_KEYWORDS

\* _recent_iterative_shell_usage
lookback == 5

_recent_iterative_shell_usage(commands) ==
    LET subset == LastN(commands, lookback)
    IN \E i \in 1..Len(subset) : _looks_iterative_shell(subset[i].command)

\* _python_executor_usage_lines
_python_executor_usage_lines(commands) ==
    IF commands = <<>> THEN <<>>
    ELSE
    LET python_uses == Cardinality({i \in 1..Len(commands) :
                           commands[i].tool_name = "python_code_executor"})
        total == Len(commands)
    IN <<<<"python_code_executor usage so far:", ToString(python_uses), "/",
           ToString(total), "tool calls.">>>>
       \o (IF python_uses = 0
           THEN <<<<"Reminder: port iterations into python_code_executor">>>>
           ELSE IF python_uses * 4 < total /\ total >= 4
           THEN <<<<"You can accelerate remaining payload work">>>>
           ELSE <<>>)
       \o (IF _recent_iterative_shell_usage(commands) /\ python_uses = 0
           THEN <<<<"Detected shell-based iteration recently">>>>
           ELSE <<>>)

\* _parse_listener_command: the token after "action=" and after "port="
TokenAfter(command_text, key) ==
    LET at == {i \in 1..(Len(command_text) - 1) : command_text[i] = key}
    IN IF at = {} THEN None
       ELSE Some(command_text[(CHOOSE i \in at : \A j \in at : j <= i) + 1])

_parse_listener_command(command_text) ==
    IF command_text = <<>> \/ ~Contains(command_text, <<"start_listener">>)
    THEN [action |-> None, port |-> None]
    ELSE [action |-> TokenAfter(command_text, "action="),
          port |-> TokenAfter(command_text, "port=")]

\* the records of start_listener for which a port is parsed
ListenerRecords(commands) ==
    SelectSeq(commands,
              LAMBDA record :
                  /\ record.tool_name = "start_listener"
                  /\ _parse_listener_command(record.command).port # None)

\* listeners[port] after the records were folded in
RECURSIVE ListenerInfo(_, _)
ListenerInfo(records, port) ==
    IF records = <<>>
    THEN [running |-> FALSE, last_action |-> None, had_read |-> FALSE,
          last_output |-> <<>>]
    ELSE
    LET record == records[Len(records)]
        parsed == _parse_listener_command(record.command)
        info == ListenerInfo(SubSeq(records, 1, Len(records) - 1), port)
    IN IF parsed.port # Some(port) THEN info
       ELSE IF parsed.action = Some("start") /\ record.success
       THEN [running |-> TRUE, last_action |-> parsed.action,
             had_read |-> FALSE, last_output |-> <<>>]
       ELSE IF parsed.action = Some("read")
       THEN [info EXCEPT !.last_action = parsed.action,
                         !.had_read = TRUE,
                         !.last_output = IF Truthy(record.stdout)
                                         THEN record.stdout
                                         ELSE record.stderr]
       ELSE IF parsed.action = Some("stop")
       THEN [info EXCEPT !.last_action = parsed.action, !.running = FALSE]
       ELSE [info EXCEPT !.last_action = parsed.action]

\* the ports in the order their first record was logged
RECURSIVE PortsInOrder(_)
PortsInOrder(records) ==
    IF records = <<>> THEN <<>>
    ELSE LET before == PortsInOrder(SubSeq(records, 1, Len(records) - 1))
             port == _parse_listener_command(records[Len(records)].command).port[1]
         IN IF port \in SeqToSet(before) THEN before ELSE Append(before, port)

\* _listener_context_lines; an output of more than 80 characters is cut in
\* the preview, the outputs here are shorter
_listener_context_lines(commands) ==
    LET records == ListenerRecords(commands)
        ports == PortsInOrder(records)
        lines(port) ==
            LET info == ListenerInfo(records, port)
            IN <<<<"listener port", port, "status=",
                   IF info.running THEN "RUNNING" ELSE "STOPPED",
                   "last_action=",
                   IF info.last_action = None THEN "None"
                   ELSE info.last_action[1],
                   "had_read=",
                   ToString(info.had_read)>>>>
               \o (IF info.running /\ ~info.had_read
                   THEN <<<<"listener port", port,
                            "has not produced output yet">>>>
                   ELSE <<>>)
               \o (IF Truthy(info.last_output)
                   THEN <<<<"last output preview:">> \o info.last_output>>
                   ELSE <<>>)
    IN Flatten([i \in 1..Len(ports) |-> lines(ports[i])])

\* context_lines (lines 286-316), one token sequence per line
ContextLines(tried_models, report, rate_notes, incomplete_notes) ==
    (IF Len(tried_models) > 1
     THEN <<<<"Previously attempted models:">>
              \o Join(<<",">>, [i \in 1..(Len(tried_models) - 1) |->
                                   <<tried_models[i]>>])>>
     ELSE <<>>)
    \o (IF report.commands # <<>>
        THEN <<<<"Commands executed so far:">>>>
             \o [i \in 1..Len(report.commands) |-> CommandLine(report.commands[i])]
             \o (LET python_usage_lines ==
                         _python_executor_usage_lines(report.commands)
                 IN IF python_usage_lines # <<>>
                    THEN <<<<"python_code_executor reminders:">>>>
                         \o [i \in 1..Len(python_usage_lines) |->
                                Bullet(python_usage_lines[i])]
                    ELSE <<>>)
             \o (LET listener_lines == _listener_context_lines(report.commands)
                 IN IF listener_lines # <<>>
                    THEN <<<<"start_listener observations:">>>>
                         \o [i \in 1..Len(listener_lines) |->
                                Bullet(listener_lines[i])]
                    ELSE <<>>)
        ELSE <<>>)
    \o (IF report.thinking_summary # <<>>
        THEN <<<<"Thinking summary so far:">>>>
             \o [i \in 1..Len(report.thinking_summary) |->
                    Bullet(report.thinking_summary[i])]
        ELSE <<>>)
    \o (IF report.final_analysis # None /\ report.final_analysis[1] # <<>>
        THEN <<<<"Final analysis so far:">>, report.final_analysis[1]>>
        ELSE <<>>)
    \o (IF rate_notes # <<>>
        THEN <<<<"Rate limit observations:">>>>
             \o [i \in 1..Len(rate_notes) |-> Bullet(rate_notes[i])]
        ELSE <<>>)
    \o (IF incomplete_notes # <<>>
        THEN <<<<"Incomplete response observations:">>>>
             \o [i \in 1..Len(incomplete_notes) |-> Bullet(incomplete_notes[i])]
        ELSE <<>>)

\* whether a prompt carries a CONTEXT block
HasContextBlock(p) == Contains(p, <<"\n\nCONTEXT:\n">>)

\* the prompt of an attempt (lines 279-319)
AttemptPrompt(tried_models, report, rate_notes, incomplete_notes) ==
    IF WantsContext(tried_models, rate_notes, incomplete_notes)
    THEN LET context_lines ==
                 ContextLines(tried_models, report, rate_notes, incomplete_notes)
         IN IF context_lines # <<>>
            THEN build_prompt \o <<"\n\nCONTEXT:\n">>
                     \o Join(<<"\n">>, context_lines)
            ELSE build_prompt
    ELSE build_prompt

(***************************************************************************)
(* BounterAgent.run: one iteration of `while True`                          *)
(*                                                                          *)
(* The agent state an iteration reads and writes is the record              *)
(*   [rate_limit_notes, incomplete_response_notes, report, last_exception]  *)
(* and an iteration ends in ctl = "continue", "break", "return" (value is   *)
(* the response) or "raise" (value is the exception).                       *)
(***************************************************************************)
\* an exception raised during backend call number `at` of the run
Raised(exc, at) ==
    [cls |-> exc.cls, code |-> exc.code, message |-> exc.message,
     str |-> exc.str, at |-> at]

Step(st, ctl, value) ==
    [rate_limit_notes |-> st.rate_limit_notes,
     incomplete_response_notes |-> st.incomplete_response_notes,
     report |-> st.report,
     last_exception |-> st.last_exception,
     ctl |-> ctl,
     value |-> value]

\* `not self.report.final_analysis`
NoFinalAnalysis(report) ==
    report.final_analysis = None \/ report.final_analysis[1] = <<>>

\* except genai.errors.ClientError (lines 396-412)
HandleClientError(st, model_name, exc) ==
    LET st1 == [st EXCEPT !.last_exception = Some(exc)]
        code == exc.code
        msg_raw == IF Truthy(exc.message) THEN exc.message ELSE exc.str
        msg == Lower(msg_raw)
    IN IF _is_rate_limit_error(code, msg)
       THEN Step([st1 EXCEPT !.rate_limit_notes =
                      _record_rate_limit_note(@, model_name, msg_raw)],
                 "break", None)
       ELSE Step(st1, "raise", Some(exc))

\* a variant that moves on to the next model where the handler re-raises
HandleExceptionSwallowing(st, model_name, attempt, exc) ==
    LET st1 == [st EXCEPT !.last_exception = Some(exc)]
        msg == Lower(exc.str)
    IN IF Contains(msg, <<"no", "_", "streaming", "_", "chunks">>)
       THEN LET st2 == [st1 EXCEPT
                          !.incomplete_response_notes =
                              _handle_incomplete_response(@, model_name, attempt),
                          !.report.end_time = None]
            IN IF attempt < INCOMPLETE_RESPONSE_RETRIES
               THEN Step(st2, "continue", None)
               ELSE Step([st2 EXCEPT !.incomplete_response_notes =
                              _record_incomplete_response_note(@,
                                  NoChunksExhaustionNote(model_name, attempt))],
                         "break", None)
       ELSE IF _is_rate_limit_error(None, msg)
       THEN Step([st1 EXCEPT !.rate_limit_notes =
                      _record_rate_limit_note(@, model_name, exc.str)],
                 "break", None)
       ELSE Step(st1, "break", None)

\* a variant without the "no streaming chunks" case
HandleExceptionNoChunkCase(st, model_name, attempt, exc) ==
    LET st1 == [st EXCEPT !.last_exception = Some(exc)]
        msg == Lower(exc.str)
    IN IF _is_rate_limit_error(None, msg)
       THEN Step([st1 EXCEPT !.rate_limit_notes =
                      _record_rate_limit_note(@, model_name, exc.str)],
                 "break", None)
       ELSE Step(st1, "raise", Some(exc))

\* except Exception (lines 413-436)
HandleException(st, model_name, attempt, exc) ==
    LET st1 == [st EXCEPT !.last_exception = Some(exc)]
        msg == Lower(exc.str)
    IN IF Contains(msg, <<"no", "_", "streaming", "_", "chunks">>)
       THEN LET st2 == [st1 EXCEPT
                          !.incomplete_response_notes =
                              _handle_incomplete_response(@, model_name, attempt),
                          !.report.end_time = None]
            IN IF attempt < INCOMPLETE_RESPONSE_RETRIES
               THEN Step(st2, "continue", None)
               ELSE Step([st2 EXCEPT !.incomplete_response_notes =
                              _record_incomplete_response_note(@,
                                  NoChunksExhaustionNote(model_name, attempt))],
                         "break", None)
       ELSE IF _is_rate_limit_error(None, msg)
       THEN Step([st1 EXCEPT !.rate_limit_notes =
                      _record_rate_limit_note(@, model_name, exc.str)],
                 "break", None)
       ELSE Step(st1, "raise", Some(exc))

\* a variant that returns the response without clearing the notes
HandleResponseKeepingNotes(st, model_name, attempt, response, at) ==
    LET upd == update_from_response(st.report, response)
        st1 == [st EXCEPT !.report = upd.report]
    IN IF upd.raised
       THEN HandleException(st1, model_name, attempt, Raised(NoneSubscriptError, at))
       ELSE IF _response_indicates_rate_limit(response)
       THEN Step([st1 EXCEPT
                    !.rate_limit_notes =
                        _record_rate_limit_note(@, model_name,
                            <<"Model reported rate limit signal in response">>),
                    !.report.end_time = None],
                 "break", None)
       ELSE IF NoFinalAnalysis(st1.report)
       THEN LET st2 == [st1 EXCEPT
                          !.incomplete_response_notes =
                              _handle_incomplete_response(@, model_name, attempt),
                          !.report.end_time = None]
            IN IF attempt < INCOMPLETE_RESPONSE_RETRIES
               THEN Step(st2, "continue", None)
               ELSE Step([st2 EXCEPT !.incomplete_response_notes =
                              _record_incomplete_response_note(@,
                                  NoFinalExhaustionNote(model_name, attempt))],
                         "break", None)
       ELSE Step(st1,
                 "return", Some(response))

\* the try body retrying a response without final analysis once more
HandleResponseRetryingAgain(st, model_name, attempt, response, at) ==
    LET upd == update_from_response(st.report, response)
        st1 == [st EXCEPT !.report = upd.report]
    IN IF upd.raised
       THEN HandleException(st1, model_name, attempt, Raised(NoneSubscriptError, at))
       ELSE IF _response_indicates_rate_limit(response)
       THEN Step([st1 EXCEPT
                    !.rate_limit_notes =
                        _record_rate_limit_note(@, model_name,
                            <<"Model reported rate limit signal in response">>),
                    !.report.end_time = None],
                 "break", None)
       ELSE IF NoFinalAnalysis(st1.report)
       THEN LET st2 == [st1 EXCEPT
                          !.incomplete_response_notes =
                              _handle_incomplete_response(@, model_name, attempt),
                          !.report.end_time = None]
            IN IF attempt <= INCOMPLETE_RESPONSE_RETRIES
               THEN Step(st2, "continue", None)
               ELSE Step([st2 EXCEPT !.incomplete_response_notes =
                              _record_incomplete_response_note(@,
                                  NoFinalExhaustionNote(model_name, attempt))],
                         "break", None)
       ELSE Step([st1 EXCEPT !.incomplete_response_notes = <<>>],
                 "return", Some(response))

\* the try body testing for a missing final analysis before the rate-limit
\* signal of the response
HandleResponseIncompleteFirst(st, model_name, attempt, response, at) ==
    LET upd == update_from_response(st.report, response)
        st1 == [st EXCEPT !.report = upd.report]
    IN IF upd.raised
       THEN HandleException(st1, model_name, attempt, Raised(NoneSubscriptError, at))
       ELSE IF NoFinalAnalysis(st1.report)
       THEN LET st2 == [st1 EXCEPT
                          !.incomplete_response_notes =
                              _handle_incomplete_response(@, model_name, attempt),
                          !.report.end_time = None]
            IN IF attempt < INCOMPLETE_RESPONSE_RETRIES
               THEN Step(st2, "continue", None)
               ELSE Step([st2 EXCEPT !.incomplete_response_notes =
                              _record_incomplete_response_note(@,
                                  NoFinalExhaustionNote(model_name, attempt))],
                         "break", None)
       ELSE IF _response_indicates_rate_limit(response)
       THEN Step([st1 EXCEPT
                    !.rate_limit_notes =
                        _record_rate_limit_note(@, model_name,
                            <<"Model reported rate limit signal in response">>),
                    !.report.end_time = None],
                 "break", None)
       ELSE Step([st1 EXCEPT !.incomplete_response_notes = <<>>],
                 "return", Some(response))

\* the try body after _stream_model_response returned (lines 367-395)
HandleResponse(st, model_name, attempt, response, at) ==
    LET upd == update_from_response(st.report, response)
        st1 == [st EXCEPT !.report = upd.report]
    IN IF upd.raised
       THEN HandleException(st1, model_name, attempt, Raised(NoneSubscriptError, at))
       ELSE IF _response_indicates_rate_limit(response)
       THEN Step([st1 EXCEPT
                    !.rate_limit_notes =
                        _record_rate_limit_note(@, model_name,
                            <<"Model reported rate limit signal in response">>),
                    !.report.end_time = None],
                 "break", None)
       ELSE IF NoFinalAnalysis(st1.report)
       THEN LET st2 == [st1 EXCEPT
                          !.incomplete_response_notes =
                              _handle_incomplete_response(@, model_name, attempt),
                          !.report.end_time = None]
            IN IF attempt < INCOMPLETE_RESPONSE_RETRIES
               THEN Step(st2, "continue", None)
               ELSE Step([st2 EXCEPT !.incomplete_response_notes =
                              _record_incomplete_response_note(@,
                                  NoFinalExhaustionNote(model_name, attempt))],
                         "break", None)
       ELSE Step([st1 EXCEPT !.incomplete_response_notes = <<>>],
                 "return", Some(response))

\* the try statement (lines 360-436).  The backend either raises `exc`
\* (from generate_content_stream or while the stream is read) or delivers
\* the stream of chunks.
TryAttempt(st, model_name, attempt, outcome, at) ==
    IF outcome.kind = "error"
    THEN IF outcome.exc.cls = "ClientError"
         THEN HandleClientError(st, model_name, Raised(outcome.exc, at))
         ELSE HandleException(st, model_name, attempt, Raised(outcome.exc, at))
    ELSE LET got == _stream_model_response(outcome.stream) IN
         IF got.raised
         THEN HandleException(st, model_name, attempt, Raised(EmptyStreamError, at))
         ELSE HandleResponse(st, model_name, attempt, got.response[1], at)

(***************************************************************************)
(* What the backend may do on one call: raise, or deliver a stream.         *)
(***************************************************************************)
ThoughtChunk(text) ==
    Chunk(Some(<<Candidate(None,
              Some(Content(Some("model"), <<Part(text, BoolMarker(TRUE))>>)))>>),
          None)

OutputChunk(text) ==
    Chunk(Some(<<Candidate(Some(0),
              Some(Content(Some("model"), <<Part(text, NoMarker)>>)))>>),
          Some(Usage(Some(1), Some(2), Some(3))))

StreamTable ==
    [empty |-> <<>>,                                       \* no chunk at all
     no_candidates |-> <<Chunk(None, None)>>,              \* a chunk without candidates
     thoughts_only |-> <<ThoughtChunk(<<"plan">>)>>,
     complete |-> <<ThoughtChunk(<<"plan">>), OutputChunk(<<"_", "done">>)>>,
     quota_answer |-> <<OutputChunk(<<"Quota", "_", "exceeded">>)>>,
     quota_thought |-> <<ThoughtChunk(<<"got", "_", "429">>)>>]

ErrorTable ==
    [client_429 |-> Exc("ClientError", Some(429), <<"slow", "_", "down">>,
                        <<"429", "_", "slow", "_", "down">>),
     client_400 |-> Exc("ClientError", Some(400), <<"bad", "_", "request">>,
                        <<"400", "_", "bad", "_", "request">>),
     client_quota |-> Exc("ClientError", Some(403), <<>>,
                          <<"Quota", "_", "exceeded">>),
     server_503 |-> Exc("Exception", Some(503), <<"backend", "_", "down">>,
                        <<"backend", "_", "down">>),
     overloaded |-> Exc("Exception", None, <<>>, <<"Server", "_", "Overloaded">>),
     boom |-> Exc("Exception", None, <<>>, <<"boom">>)]

\* the outcomes, by name
OutcomeNames == DOMAIN StreamTable \cup DOMAIN ErrorTable

Outcome(name) ==
    IF name \in DOMAIN StreamTable
    THEN [kind |-> "stream", stream |-> StreamTable[name]]
    ELSE [kind |-> "error", exc |-> ErrorTable[name]]

\* config.models_order: any list of model names, repeats included
RECURSIVE SeqsUpTo(_, _)
SeqsUpTo(S, n) ==
    IF n = 0 THEN {<<>>}
    ELSE LET shorter == SeqsUpTo(S, n - 1) IN
         shorter \cup {Append(q, x) : q \in {r \in shorter : Len(r) = n - 1}, x \in S}

(***************************************************************************)
(* The agent as a state machine                                             *)
(***************************************************************************)
VARIABLES
    models_order,               \* config.models_order
    pc,                         \* "idle", "for" (loop head), "while" (an attempt is due)
    tried_models,               \* run's local
    attempt,                    \* run's local
    last_exception,             \* run's local
    rate_limit_notes,           \* self._rate_limit_notes
    incomplete_response_notes,  \* self._incomplete_response_notes
    report,                     \* self.report
    result,                     \* how the last run ended
    calls,                      \* the backend calls of the current run
    prompt,                     \* the prompt of the latest backend call
    run_no,                     \* runs started on this agent
    total_calls,                \* backend calls over all runs
    stream_pc,                  \* _stream_model_response: "loop", "done"
    chunks,                     \* the chunks the stream has yielded
    aggregation,                \* the locals of _stream_model_response
    returned,                   \* what _stream_model_response ended with
    status_console,             \* whether the agent was given a console
    emitted,                    \* the calls of _emit_stream_text so far
    response,                   \* the latest response or chunk handled
    resolved,                   \* update_from_response: is_thought of each part
    labels,                     \* _handle_stream_chunk: the label of each part shown
    updates,                    \* responses and chunks handled so far
    snapshot,                   \* the last export of the report
    reloaded,                   \* the report read back from the snapshot
    on_command,                 \* the tools were built with an observer callback
    tool_trace,                 \* the calls made of report.log_command and on_command
    uuids,                      \* uuid.uuid4() values drawn so far
    listeners,                  \* build_listener_tool's listeners, by port
    sessions,                   \* build_python_executor_tool's sessions, by id
    tool_result,                \* how the last tool invocation ended
    tool_call,                  \* the last tool invocation: tool and arguments
    invocations,                \* tool invocations made so far
    process,                    \* one listener's nc process: "none", "running", "exited"
    tracked,                    \* whether the registry holds the listener's session
    pipe,                       \* per pipe, the lines written and not yet read
    line_read,                  \* per reader thread, the line readline returned
    reader_pc,                  \* per reader thread, where it is in _reader
    buffer,                     \* per key, the session's buffer
    lock,                       \* who holds session["lock"]
    call,                       \* the tool thread's position in read or stop
    returns,                    \* what the read and stop calls returned
    scanning,                   \* BounterTUI.scanning
    _hil_mode,                  \* BounterTUI._hil_mode
    _session_target,            \* BounterTUI._session_target
    _awaiting_guidance,         \* BounterTUI._awaiting_guidance
    tasks,                      \* the scan tasks created, in order
    notice                      \* what the last command handled logged

agent_vars == <<models_order, pc, tried_models, attempt, last_exception,
                rate_limit_notes, incomplete_response_notes, report, result,
                calls, prompt, run_no, total_calls>>

stream_vars == <<stream_pc, chunks, aggregation, returned, status_console, emitted>>

report_vars == <<response, resolved, labels, updates, snapshot, reloaded>>

thread_vars == <<process, tracked, pipe, line_read, reader_pc, buffer, lock,
                 call, returns>>

tool_vars == <<on_command, tool_trace, uuids, listeners, sessions, tool_result,
               tool_call, invocations, thread_vars>>

tui_vars == <<scanning, _hil_mode, _session_target, _awaiting_guidance, tasks, notice>>

vars == <<agent_vars, stream_vars, report_vars, tool_vars, tui_vars>>

NoResult == [kind |-> "none"]

\* the ports and the python session ids the tools are called with
Ports == {4444}

SessionIds == {"default", "s2"}

\* _stream_model_response before its first chunk (lines 460-469), and a
\* display that has shown nothing
StreamStart ==
    /\ stream_pc = "loop"
    /\ chunks = <<>>
    /\ aggregation = NewAggregation
    /\ returned = None
    /\ response = None
    /\ resolved = <<>>
    /\ labels = <<>>
    /\ updates = 0
    /\ emitted = <<>>
    /\ snapshot = None
    /\ reloaded = None

\* the four tool closures when built: no listener, no python session, and
\* nothing logged or observed yet
ToolStart ==
    /\ tool_trace = <<>>
    /\ uuids = 0
    /\ listeners = [port \in Ports |-> None]
    /\ sessions = [sid \in SessionIds |-> None]
    /\ tool_result = NoResult
    /\ tool_call = NoResult
    /\ invocations = 0

\* the two pipes of a listener process, and the buffer keys of its session
Keys == {"stdout", "stderr"}

\* the tool thread between two calls
NoCall == [pc |-> "idle"]

\* no listener is followed thread by thread
NoThreads ==
    /\ process = "none"
    /\ tracked = FALSE
    /\ pipe = [key \in Keys |-> <<>>]
    /\ line_read = [key \in Keys |-> None]
    /\ reader_pc = [key \in Keys |-> "closed"]
    /\ buffer = [key \in Keys |-> <<>>]
    /\ lock = None
    /\ call = NoCall
    /\ returns = <<>>

\* BounterTUI after on_mount (tui.py lines 189, 203-212): no scan was asked for
NoTui ==
    /\ scanning = FALSE
    /\ _hil_mode = FALSE
    /\ _session_target = None
    /\ _awaiting_guidance = FALSE
    /\ tasks = <<>>
    /\ notice = "none"

\* BounterAgent.__init__ with a new ScanReport
Init ==
    /\ StreamStart
    /\ NoThreads
    /\ NoTui
    /\ status_console = FALSE
    /\ ToolStart
    /\ on_command = TRUE
    /\ models_order \in SeqsUpTo(ModelNames, MaxModels)
    /\ pc = "idle"
    /\ tried_models = <<>>
    /\ attempt = 0
    /\ last_exception = None
    /\ rate_limit_notes = <<>>
    /\ incomplete_response_notes = <<>>
    /\ report = NewReport
    /\ result = NoResult
    /\ calls = <<>>
    /\ prompt = <<>>
    /\ run_no = 0
    /\ total_calls = 0

\* run() is entered (lines 265-271)
StartRun ==
    /\ pc = "idle"
    /\ run_no < MaxRuns
    /\ run_no' = run_no + 1
    /\ tried_models' = <<>>
    /\ last_exception' = None
    /\ rate_limit_notes' = <<>>
    /\ attempt' = 0
    /\ result' = NoResult
    /\ calls' = <<>>
    /\ pc' = "for"
    /\ UNCHANGED <<models_order, incomplete_response_notes, report, prompt,
                   total_calls>>
    /\ UNCHANGED <<stream_vars, report_vars, tool_vars, tui_vars>>

\* a variant that walks the list from its end
ForModelReversed(order, tried) == order[Len(order) - Len(tried)]

\* the entry the for loop yields after Len(tried) iterations (line 273)
ForModel(order, tried) == order[Len(tried) + 1]

\* `for model_name in self.config.models_order` takes the next model
\* (lines 273-275)
NextModel ==
    /\ pc = "for"
    /\ Len(tried_models) < Len(models_order)
    /\ tried_models' = Append(tried_models, ForModel(models_order, tried_models))
    /\ attempt' = 0
    /\ pc' = "while"
    /\ UNCHANGED <<models_order, last_exception, rate_limit_notes,
                   incomplete_response_notes, report, result, calls, prompt,
                   run_no, total_calls>>
    /\ UNCHANGED <<stream_vars, report_vars, tool_vars, tui_vars>>

\* a variant that forgets the captured error
ExhaustedErrorGeneric(last) == Raised(NoModelsError, 0)

\* what run raises after the for loop (lines 441-443)
ExhaustedError(last) == IF last # None THEN last[1] ELSE Raised(NoModelsError, 0)

\* the for loop ran out of models (lines 441-443)
Exhausted ==
    /\ pc = "for"
    /\ Len(tried_models) = Len(models_order)
    /\ result' = [kind |-> "raised", value |-> ExhaustedError(last_exception),
                  exhausted |-> TRUE]
    /\ pc' = "idle"
    /\ UNCHANGED <<models_order, tried_models, attempt, last_exception,
                   rate_limit_notes, incomplete_response_notes, report, calls,
                   prompt, run_no, total_calls>>
    /\ UNCHANGED <<stream_vars, report_vars, tool_vars, tui_vars>>

\* one iteration of `while True` (lines 277-439)
Dispatch ==
    /\ pc = "while"
    /\ total_calls < MaxCalls
    /\ \E name \in OutcomeNames :
        LET outcome == Outcome(name)
            model_name == tried_models[Len(tried_models)]
            n == attempt + 1
            p == AttemptPrompt(tried_models, report, rate_limit_notes,
                               incomplete_response_notes)
            st == [rate_limit_notes |-> rate_limit_notes,
                   incomplete_response_notes |-> incomplete_response_notes,
                   report |-> report,
                   last_exception |-> last_exception]
            at == Len(calls) + 1
        IN \E done \in {TryAttempt(st, model_name, n, outcome, at)} :
           /\ attempt' = n
           /\ prompt' = p
           /\ calls' = Append(calls,
                  [model |-> model_name, pos |-> Len(tried_models),
                   attempt |-> n, has_context |-> HasContextBlock(p),
                   outcome |-> name])
           /\ rate_limit_notes' = done.rate_limit_notes
           /\ incomplete_response_notes' = done.incomplete_response_notes
           /\ report' = done.report
           /\ last_exception' = done.last_exception
           /\ pc' = CASE done.ctl = "continue" -> "while"
                      [] done.ctl = "break" -> "for"
                      [] OTHER -> "idle"
           /\ result' = CASE done.ctl = "return" ->
                                [kind |-> "returned", value |-> done.value[1],
                                 exhausted |-> FALSE]
                          [] done.ctl = "raise" ->
                                [kind |-> "raised", value |-> done.value[1],
                                 exhausted |-> FALSE]
                          [] OTHER -> result
    /\ total_calls' = total_calls + 1
    /\ UNCHANGED <<models_order, tried_models, run_no>>
    /\ UNCHANGED <<stream_vars, report_vars, tool_vars, tui_vars>>

Next == StartRun \/ NextModel \/ Exhausted \/ Dispatch

Spec == Init /\ [][Next]_vars

(***************************************************************************)
(* _stream_model_response as a state machine: the stream yields one chunk   *)
(* at a time, then ends.                                                    *)
(***************************************************************************)
\* a chunk with its usage, prompt feedback, response id and model version
ChunkWith(candidates, meta) ==
    [Chunk(candidates, meta.usage_metadata) EXCEPT
        !.prompt_feedback = meta.prompt_feedback,
        !.response_id = meta.response_id,
        !.model_version = meta.model_version]

NoMeta ==
    [usage_metadata |-> None, prompt_feedback |-> None,
     response_id |-> None, model_version |-> None]

Meta1 ==
    [usage_metadata |-> Some(Usage(Some(1), Some(2), Some(3))),
     prompt_feedback |-> Some("feedback-1"),
     response_id |-> Some("id-1"), model_version |-> Some("version-1")]

\* a later chunk that carries a new usage and id, and nothing else
Meta2 ==
    [usage_metadata |-> Some(Usage(None, Some(5), Some(5))),
     prompt_feedback |-> None,
     response_id |-> Some("id-2"), model_version |-> None]

PartA == Part(<<"a">>, NoMarker)
PartB == Part(<<"b">>, BoolMarker(TRUE))
PartC == Part(<<"c">>, NoMarker)
\* a part whose text is empty
PartEmpty == Part(<<>>, NoMarker)

ContentA == Some(Content(Some("model"), <<PartA>>))
ContentBC == Some(Content(Some("user"), <<PartB, PartC>>))

\* the candidate lists a chunk may carry: none, an empty list, one
\* candidate (index given or omitted; content absent, without parts, or
\* with parts), two candidates
CandidateLists ==
    {None, Some(<<>>),
     Some(<<Candidate(None, ContentA)>>),
     Some(<<Candidate(None, ContentBC)>>),
     Some(<<Candidate(Some(0), ContentA)>>),
     Some(<<Candidate(Some(1), ContentBC)>>),
     Some(<<Candidate(Some(1), Some(Content(Some("user"), <<>>)))>>),
     Some(<<Candidate(Some(0), None)>>),
     Some(<<Candidate(Some(0),
                      Some(Content(Some("model"), <<PartEmpty, PartB>>)))>>),
     Some(<<Candidate(None, Some(Content(None, <<>>)))>>),
     Some(<<Candidate(None, ContentA), Candidate(None, ContentBC)>>),
     Some(<<Candidate(Some(1), ContentA), Candidate(None, ContentBC)>>),
     Some(<<Candidate(Some(1), ContentBC), Candidate(Some(0), ContentA)>>)}

ChunkPool ==
    {ChunkWith(c, m) : c \in CandidateLists, m \in {NoMeta, Meta1}}
        \cup {ChunkWith(None, Meta2)}

\* the parts of a chunk that _handle_stream_chunk shows: those with text
ShownParts(chunk) ==
    LET candidates == IF chunk.candidates = None THEN <<>>
                      ELSE chunk.candidates[1]
        parts(candidate) == IF candidate.content = None THEN <<>>
                            ELSE candidate.content[1].parts
    IN SelectSeq(Flatten([i \in 1..Len(candidates) |-> parts(candidates[i])]),
                 LAMBDA q : Truthy(q.text))

\* each part _handle_stream_chunk shows with the label it gets, in order
\* (lines 559-568)
StreamLabels(chunk) ==
    [i \in 1..Len(ShownParts(chunk)) |->
        [part |-> ShownParts(chunk)[i],
         label |-> IF _is_thought_part(ShownParts(chunk)[i]) THEN "thought"
                   ELSE "output"]]

\* a variant that shows the parts of a chunk last to first
_handle_stream_chunk_reversed(console, chunk) ==
    IF console
    THEN [i \in 1..Len(StreamLabels(chunk)) |->
             StreamLabels(chunk)[Len(StreamLabels(chunk)) + 1 - i]]
    ELSE <<>>

\* _handle_stream_chunk: what it hands to _emit_stream_text, nothing when
\* the agent has no console (lines 555-568)
_handle_stream_chunk(console, chunk) ==
    IF console THEN StreamLabels(chunk) ELSE <<>>

\* one iteration of `for chunk in stream` (lines 470-499)
ReceiveChunk ==
    /\ stream_pc = "loop"
    /\ Len(chunks) < MaxChunks
    /\ \E chunk \in ChunkPool :
          /\ chunks' = Append(chunks, chunk)
          /\ emitted' = emitted \o _handle_stream_chunk(status_console, chunk)
          /\ aggregation' = AggregateChunk(aggregation, chunk)
    /\ UNCHANGED <<stream_pc, returned, status_console, agent_vars,
                   report_vars, tool_vars, tui_vars>>

\* the stream is over (lines 501-545): raise, or return the response
EndStream ==
    /\ stream_pc = "loop"
    /\ stream_pc' = "done"
    /\ returned' = Some(FinishStream(aggregation))
    /\ UNCHANGED <<chunks, aggregation, status_console, emitted, agent_vars,
                   report_vars, tool_vars, tui_vars>>

\* no run is in progress; only the stream is followed
StreamIdle ==
    /\ StreamStart
    /\ NoThreads
    /\ NoTui
    /\ ToolStart
    /\ on_command = TRUE
    /\ models_order = <<>>
    /\ pc = "done"
    /\ tried_models = <<>>
    /\ attempt = 0
    /\ last_exception = None
    /\ rate_limit_notes = <<>>
    /\ incomplete_response_notes = <<>>
    /\ report = NewReport
    /\ result = NoResult
    /\ calls = <<>>
    /\ prompt = <<>>
    /\ run_no = 0
    /\ total_calls = 0

\* an agent constructed with or without a status console (lines 39-47)
StreamInit == StreamIdle /\ status_console \in BOOLEAN

StreamNext == ReceiveChunk \/ EndStream

StreamSpec == StreamInit /\ [][StreamNext]_vars

(***************************************************************************)
(* ScanReport.update_from_response and the live display                     *)
(* (_handle_stream_chunk) as a state machine: responses and chunks are      *)
(* handed to one report, one at a time.                                     *)
(***************************************************************************)
\* an object without model_dump()/to_dict(), as the tests build them
Plain(part) == [part EXCEPT !.dump = FALSE]

\* a response with one candidate
Single(parts, usage) ==
    Chunk(Some(<<Candidate(Some(0), Some(Content(Some("model"), parts)))>>),
          usage)

InnerNode == Node(<<"inner">>, <<>>, FALSE)

\* nodes nested through parts: Nest3 holds Nest2 holds Nest1 holds Nest0
Nest0 == Node(<<"t3">>, <<>>, FALSE)
Nest1 == Node(<<"_", "t2">>, <<Nest0>>, FALSE)
Nest2 == Node(<<"t1">>, <<Nest1>>, FALSE)
Nest3 == Node(<<"t0", "_">>, <<Nest2>>, FALSE)

\* the container of the test: no text of its own, one nested part
Container(dump) == Node(<<>>, <<Node(<<"follow-up">>, <<>>, dump)>>, dump)

Markers ==
    {NoMarker, BoolMarker(TRUE), BoolMarker(FALSE), NumMarker(0),
     NumMarker(1), NodeMarker(InnerNode)}

Roles == {None, Some(<<"thought">>), Some(<<"Thought">>), Some(<<"model">>)}

Kinds == {None, Some(<<"my", "_", "THOUGHT">>), Some(<<"text">>)}

ClassifiedParts ==
    {PartWith(<<"x">>, m, r, k) : m \in Markers, r \in Roles, k \in Kinds}

ThoughtPart == Part(<<"_", "Need", "_", "auth", "_">>, BoolMarker(TRUE))
AnswerPart == Part(<<"Final", "_", "summary">>, NoMarker)
BlankPart == Part(<<"_", "_">>, NoMarker)
DonePart == Part(<<"Done">>, NoMarker)

Usage15 == Some(Usage(Some(10), Some(5), Some(15)))

SplitResponses ==
    {Single(<<ThoughtPart, AnswerPart>>, None),
     Single(<<Plain(ThoughtPart), Plain(AnswerPart)>>, None),
     Single(<<Plain(DonePart), Plain(BlankPart), Plain(AnswerPart)>>, Usage15),
     Single(<<Plain(ThoughtPart), Plain(BlankPart)>>, None),
     Single(<<>>, Usage15)}

NestedResponses ==
    {Single(<<Plain(Part(<<"wrap">>, NodeMarker(n))), Plain(DonePart)>>, u) :
        n \in {Container(FALSE), Container(TRUE), Nest3, Nest1},
        u \in {None, Usage15}}

ResponsePool ==
    {Single(<<q>>, None) : q \in ClassifiedParts}
        \cup SplitResponses \cup NestedResponses
        \cup {Chunk(None, Usage15), Chunk(Some(<<>>), Usage15)}

\* each part with its is_thought, as the loop of update_from_response
\* finds it (lines 68-71)
ResolvedFlags(r) ==
    IF r.candidates = None \/ r.candidates[1] = <<>> THEN <<>>
    ELSE LET candidate == r.candidates[1][1]
             parts == IF candidate.content = None THEN <<>>
                      ELSE candidate.content[1].parts
         IN [i \in 1..Len(parts) |->
               [part |-> parts[i],
                is_thought |-> _resolve_thought_source(parts[i])[1]]]

\* report.update_from_response(response)
UpdateReport ==
    /\ updates < MaxUpdates
    /\ \E r \in ResponsePool :
          /\ response' = Some(r)
          /\ report' = update_from_response(report, r).report
          /\ resolved' = ResolvedFlags(r)
    /\ updates' = updates + 1
    /\ UNCHANGED <<labels, snapshot, reloaded, stream_vars, models_order, pc,
                   tried_models, attempt, last_exception, rate_limit_notes,
                   incomplete_response_notes, result, calls, prompt, run_no,
                   total_calls, tool_vars, tui_vars>>

\* self._handle_stream_chunk(chunk) with a console
HandleStreamChunk ==
    /\ updates < MaxUpdates
    /\ \E chunk \in ResponsePool :
          /\ response' = Some(chunk)
          /\ labels' = _handle_stream_chunk(status_console, chunk)
    /\ updates' = updates + 1
    /\ UNCHANGED <<resolved, snapshot, reloaded, stream_vars, agent_vars,
                   tool_vars, tui_vars>>

ReportNext == UpdateReport \/ HandleStreamChunk

\* the display of an agent that was given a console
ReportInit == StreamIdle /\ status_console = TRUE

ReportSpec == ReportInit /\ [][ReportNext]_vars

(***************************************************************************)
(* tools.py: the four tool closures over one report and one observer.      *)
(* A payload is the dict handed to report.log_command and to on_command;   *)
(* of its keys the model keeps those the log and the observer read, and a  *)
(* key the dict lacks is None.                                              *)
(***************************************************************************)

MaxInvocations == 3
MaxLines == 1

Payload(tool_name, command_executed, success, return_code, out, err, phase, event_id) ==
    [tool_name |-> tool_name,
     command_executed |-> command_executed,
     success |-> success,
     return_code |-> return_code,
     stdout |-> out,
     stderr |-> err,
     phase |-> phase,
     event_id |-> event_id]

\* the dict sent before the tool's work, with "phase": "start"
StartEvent(tool_name, command_executed, event_id) ==
    Payload(tool_name, command_executed, None, None, <<>>, <<>>,
            Some("start"), Some(event_id))

\* CommandRecord(...) of log_command: record.get("success", False)
CommandRecord(record) ==
    [command |-> record.command_executed,
     success |-> IF record.success = None THEN FALSE ELSE record.success[1],
     return_code |-> record.return_code,
     stdout |-> record.stdout,
     stderr |-> record.stderr,
     tool_name |-> record.tool_name]

\* ScanReport.log_command
log_command(rep, record) ==
    [rep EXCEPT
        !.commands = Append(@, CommandRecord(record)),
        !.total_tool_invocations = @ + 1,
        !.python_executor_invocations =
            IF record.tool_name = "python_code_executor" THEN @ + 1 ELSE @]

\* what a tool invocation starts from and hands on: the report, the calls
\* made so far and the uuids drawn so far
ToolCtx == [report |-> report, trace |-> tool_trace, uuids |-> uuids]

Called(ctx, callee, payload) ==
    [ctx EXCEPT !.trace = Append(@, [call |-> callee, payload |-> payload])]

\* if on_command: on_command(payload)
Notify(ctx, payload) ==
    IF on_command THEN Called(ctx, "on_command", payload) ELSE ctx

\* _log_event, _log and _log_payload, and the same two statements written
\* out in the system command tool: report.log_command, then on_command
_log(ctx, payload) ==
    Notify([Called(ctx, "log_command", payload)
               EXCEPT !.report = log_command(@, payload)], payload)

\* event_id = uuid.uuid4().hex: a value no earlier draw returned
uuid4(ctx) == ctx.uuids + 1

ToolResult(kind, success, error, out) ==
    [kind |-> kind, success |-> success, error |-> error, stdout |-> out]

ToolReturned(success, error, out) == ToolResult("returned", success, error, out)

ToolRaised(error) == ToolResult("raised", FALSE, error, <<>>)

\* the end of every tool invocation: the invocation's effects on the report
\* and the observer, its result, and an agent that is otherwise untouched
AfterTool(ctx, res) ==
    /\ report' = ctx.report
    /\ tool_trace' = ctx.trace
    /\ uuids' = ctx.uuids
    /\ tool_result' = res
    /\ invocations' = invocations + 1
    /\ UNCHANGED <<on_command, models_order, pc, tried_models, attempt,
                   last_exception, rate_limit_notes,
                   incomplete_response_notes, result, calls, prompt, run_no,
                   total_calls, stream_vars, report_vars>>

\* the tool and the arguments of an invocation, with what the environment
\* answered
ToolCall(tool, args) == [kind |-> "call", tool |-> tool, args |-> args]

\* subprocess.run(command, shell=True, check=True, text=True,
\* timeout=timeout): the command exits with 0, exits with another code,
\* outlives the timeout, or writes bytes that text=True cannot decode
\* (UnicodeDecodeError, which no handler of the tool catches)
CommandOutcomes == {"ok", "nonzero", "timeout", "undecodable"}

\* what the command wrote to its standard output: a line and its newline
SystemOutput == <<"uid=0", "_">>

\* build_system_command_tool.execute_system_command_impl(command)
execute_system_command_impl ==
    /\ invocations < MaxInvocations
    /\ \E outcome \in CommandOutcomes :
          LET tool == "build_system_command_tool"
              command == <<"id">>
              event_id == uuid4(ToolCtx)
              started == Notify([ToolCtx EXCEPT !.uuids = event_id],
                                StartEvent(tool, command, event_id))
              payload ==
                  Payload(tool, command, Some(outcome = "ok"),
                          CASE outcome = "ok" -> Some(0)
                            [] outcome = "nonzero" -> Some(1)
                            [] OTHER -> None,
                          IF outcome = "ok" THEN Strip(SystemOutput) ELSE <<>>,
                          IF outcome = "ok" THEN <<>> ELSE <<"err">>,
                          Some("end"), Some(event_id))
          IN  /\ IF outcome = "undecodable"
                 THEN AfterTool(started, ToolRaised("UnicodeDecodeError"))
                 ELSE AfterTool(_log(started, payload),
                                ToolReturned(outcome = "ok",
                                     CASE outcome = "ok" -> ""
                                       [] outcome = "nonzero" -> "CalledProcessError"
                                       [] OTHER -> "Timeout",
                                     payload.stdout))
              /\ tool_call' = ToolCall(tool, [command |-> command,
                                              outcome |-> outcome])
    /\ UNCHANGED <<listeners, sessions, thread_vars, tui_vars>>

\* build_searchsploit_tool._run_subprocess: subprocess.run without check and
\* without a handler, so a missing binary ("missing") leaves as
\* FileNotFoundError after the start event
_run_subprocess(ctx, command, outcome) ==
    LET tool == "searchsploit_lookup"
        event_id == uuid4(ctx)
        started == Notify([ctx EXCEPT !.uuids = event_id],
                          StartEvent(tool, command, event_id))
        success == outcome = "ok"
        payload == Payload(tool, command, Some(success),
                           Some(IF success THEN 0 ELSE 1),
                           IF success THEN <<"out">> ELSE <<>>,
                           IF success THEN <<>> ELSE <<"err">>,
                           Some("end"), Some(event_id))
    IN  IF outcome = "missing"
        THEN [ctx |-> started, raised |-> TRUE, payload |-> payload]
        ELSE [ctx |-> _log(started, payload), raised |-> FALSE,
              payload |-> payload]

\* one call of searchsploit_lookup: its arguments, and what the environment
\* answers (run: the searchsploit process; usable: its output parses, or
\* names an existing file; exec_run: the /bin/sh of execute_command)
SCall(action, has_arg, run, usable, execute_command, exec_run) ==
    [action |-> action, has_arg |-> has_arg, run |-> run, usable |-> usable,
     execute_command |-> execute_command, exec_run |-> exec_run]

SearchsploitCalls ==
    {SCall("other", TRUE, "ok", TRUE, FALSE, "ok")}
    \cup {SCall(action, FALSE, "ok", TRUE, FALSE, "ok") :
            action \in {"search", "mirror"}}
    \cup {SCall("search", TRUE, run, TRUE, FALSE, "ok") :
            run \in {"ok", "nonzero", "missing"}}
    \cup {SCall("mirror", TRUE, "ok", usable, FALSE, "ok") :
            usable \in BOOLEAN}
    \cup {SCall("mirror", TRUE, "ok", TRUE, TRUE, exec_run) :
            exec_run \in {"ok", "nonzero"}}

\* searchsploit_lookup: the context it leaves and its result
searchsploit_outcome(ctx, c) ==
    IF c.action \notin {"search", "mirror"} \/ ~c.has_arg
    THEN [ctx |-> ctx, res |-> ToolRaised("ValueError")]
    ELSE
    LET first == _run_subprocess(
                     ctx,
                     IF c.action = "search"
                     THEN <<"searchsploit", "--json", "q">>
                     ELSE <<"searchsploit", "-p", "1">>,
                     c.run)
    IN  IF first.raised
        THEN [ctx |-> first.ctx, res |-> ToolRaised("FileNotFoundError")]
        ELSE IF ~first.payload.success[1]
        THEN [ctx |-> first.ctx,
              res |-> ToolReturned(FALSE,
                               IF c.action = "search"
                               THEN "searchsploit search failed"
                               ELSE "Unable to resolve exploit path", <<>>)]
        ELSE IF ~c.usable
        THEN [ctx |-> first.ctx,
              res |-> ToolReturned(FALSE,
                               IF c.action = "search"
                               THEN "Unable to parse searchsploit JSON output"
                               ELSE "searchsploit did not return a usable path",
                               <<>>)]
        ELSE IF c.action = "mirror" /\ c.execute_command
        THEN [ctx |-> _run_subprocess(first.ctx, <<"/bin/sh", "-c", "x">>,
                                      c.exec_run).ctx,
              res |-> ToolReturned(TRUE, "", <<>>)]
        ELSE [ctx |-> first.ctx, res |-> ToolReturned(TRUE, "", <<>>)]

\* build_searchsploit_tool.searchsploit_lookup
searchsploit_lookup ==
    /\ invocations < MaxInvocations
    /\ \E c \in SearchsploitCalls :
          \E done \in {searchsploit_outcome(ToolCtx, c)} :
              /\ AfterTool(done.ctx, done.res)
              /\ tool_call' = ToolCall("searchsploit_lookup", c)
    /\ UNCHANGED <<listeners, sessions, thread_vars, tui_vars>>

\* the session start_listener stores for a port (lines 550-559): a process
\* that has not exited, empty buffers, nothing written to its stdin
NewListener ==
    [returncode |-> None, stdout |-> <<>>, stderr |-> <<>>, written |-> 0]

\* a poll that takes every process for alive
RunningWhatever(session) == session.returncode \in {None, Some(0)}

\* a poll that finds every process exited
RunningNever(session) == FALSE

\* process.poll() is None
Running(session) == session.returncode = None

\* a keyword argument the caller may omit: the parameter's default applies
ArgOrDefault(arg, default) == IF arg = None THEN default ELSE arg[1]

\* one call of start_listener: its arguments (drain_output is None when the
\* caller omits it), and whether the environment has an nc binary
LCall(action, port, has_input, drain_output, nc_found) ==
    [action |-> action, port |-> port, has_input |-> has_input,
     drain_output |-> drain_output, nc_found |-> nc_found]

ListenerCalls ==
    {LCall("start", 0, FALSE, None, TRUE)}
    \cup {LCall(action, port, FALSE, None, TRUE) :
            action \in {"status", "stop", "other"}, port \in Ports}
    \cup {LCall("start", port, FALSE, None, nc_found) :
            port \in Ports, nc_found \in BOOLEAN}
    \cup {LCall("send", port, has_input, None, TRUE) :
            port \in Ports, has_input \in BOOLEAN}
    \cup {LCall("read", port, FALSE, drain_output, TRUE) :
            port \in Ports, drain_output \in {None, Some(TRUE), Some(FALSE)}}

\* _command_label(action, port_label)
_command_label(action, port) ==
    <<"start_listener", "action=", action, "port=", ToString(port)>>

\* a variant whose status action empties the buffers
listener_outcome_status_drains(ctx, action, port, has_input, drain_output, nc_found) ==
    LET tool == "start_listener"
        kept(c, res) == [ctx |-> c, listeners |-> listeners, res |-> res]
    IN
    IF port <= 0 THEN kept(ctx, ToolRaised("ValueError"))
    ELSE
    LET session == listeners[port]
        label == _command_label(action, port)
    IN
    IF action = "start"
    THEN IF session # None /\ Running(session[1])
         THEN kept(ctx, ToolReturned(FALSE, "listener already running", <<>>))
         ELSE LET event_id == uuid4(ctx)
                  started == Notify([ctx EXCEPT !.uuids = event_id],
                                    StartEvent(tool, label, event_id))
              IN  IF ~nc_found
                  THEN kept(_log(started,
                                 Payload(tool, <<"nc", "-lnvp", ToString(port)>>,
                                         Some(FALSE), Some(1), <<>>, <<"err">>,
                                         None, Some(event_id))),
                            ToolReturned(FALSE, "nc binary not found", <<>>))
                  ELSE [ctx |-> _log(started,
                                     Payload(tool, label, Some(TRUE), Some(0),
                                             <<>>, <<>>, None, Some(event_id))),
                        listeners |-> [listeners EXCEPT
                                          ![port] = Some(NewListener)],
                        res |-> ToolReturned(TRUE, "", <<>>)]
    ELSE IF action \notin {"status", "send", "read", "stop"}
    THEN kept(ctx, ToolRaised("ValueError"))
    ELSE IF session = None
    THEN kept(ctx, ToolRaised("ValueError"))
    ELSE IF action = "status"
    THEN [ctx |-> _log(ctx, Payload(tool, label, Some(TRUE),
                                    session[1].returncode, <<>>, <<>>, None,
                                    None)),
          listeners |-> [listeners EXCEPT
                            ![port] = Some([session[1] EXCEPT
                                               !.stdout = <<>>,
                                               !.stderr = <<>>])],
          res |-> ToolReturned(TRUE, "", <<>>)]
    ELSE IF action = "send"
    THEN IF ~Running(session[1]) THEN kept(ctx, ToolRaised("RuntimeError"))
         ELSE IF ~has_input THEN kept(ctx, ToolRaised("ValueError"))
         ELSE [ctx |-> _log(ctx, Payload(tool, label, Some(TRUE), Some(0),
                                         <<>>, <<>>, None, None)),
               listeners |-> [listeners EXCEPT
                                 ![port] = Some([session[1] EXCEPT
                                                    !.written = @ + 1])],
               res |-> ToolReturned(TRUE, "", <<>>)]
    ELSE IF action = "read"
    THEN [ctx |-> _log(ctx, Payload(tool, label, Some(TRUE), Some(0),
                                    session[1].stdout, session[1].stderr,
                                    None, None)),
          listeners |-> IF drain_output
                        THEN [listeners EXCEPT
                                 ![port] = Some([session[1] EXCEPT
                                                    !.stdout = <<>>,
                                                    !.stderr = <<>>])]
                        ELSE listeners,
          res |-> ToolReturned(TRUE, "", session[1].stdout)]
    ELSE [ctx |-> _log(ctx, Payload(tool, label, Some(TRUE),
                                    IF Running(session[1])
                                    THEN Some(0 - 15)
                                    ELSE session[1].returncode,
                                    session[1].stdout, session[1].stderr,
                                    None, None)),
          listeners |-> [listeners EXCEPT ![port] = None],
          res |-> ToolReturned(TRUE, "", session[1].stdout)]

\* start_listener: the context and the registry it leaves, and its result
listener_outcome(ctx, action, port, has_input, drain_output, nc_found) ==
    LET tool == "start_listener"
        kept(c, res) == [ctx |-> c, listeners |-> listeners, res |-> res]
    IN
    IF port <= 0 THEN kept(ctx, ToolRaised("ValueError"))
    ELSE
    LET session == listeners[port]
        label == _command_label(action, port)
    IN
    IF action = "start"
    THEN IF session # None /\ Running(session[1])
         THEN kept(ctx, ToolReturned(FALSE, "listener already running", <<>>))
         ELSE LET event_id == uuid4(ctx)
                  started == Notify([ctx EXCEPT !.uuids = event_id],
                                    StartEvent(tool, label, event_id))
              IN  IF ~nc_found
                  THEN kept(_log(started,
                                 Payload(tool, <<"nc", "-lnvp", ToString(port)>>,
                                         Some(FALSE), Some(1), <<>>, <<"err">>,
                                         None, Some(event_id))),
                            ToolReturned(FALSE, "nc binary not found", <<>>))
                  ELSE [ctx |-> _log(started,
                                     Payload(tool, label, Some(TRUE), Some(0),
                                             <<>>, <<>>, None, Some(event_id))),
                        listeners |-> [listeners EXCEPT
                                          ![port] = Some(NewListener)],
                        res |-> ToolReturned(TRUE, "", <<>>)]
    ELSE IF action \notin {"status", "send", "read", "stop"}
    THEN kept(ctx, ToolRaised("ValueError"))
    ELSE IF session = None
    THEN kept(ctx, ToolRaised("ValueError"))
    ELSE IF action = "status"
    THEN kept(_log(ctx, Payload(tool, label, Some(TRUE),
                                session[1].returncode, <<>>, <<>>, None, None)),
              ToolReturned(TRUE, "", <<>>))
    ELSE IF action = "send"
    THEN IF ~Running(session[1]) THEN kept(ctx, ToolRaised("RuntimeError"))
         ELSE IF ~has_input THEN kept(ctx, ToolRaised("ValueError"))
         ELSE [ctx |-> _log(ctx, Payload(tool, label, Some(TRUE), Some(0),
                                         <<>>, <<>>, None, None)),
               listeners |-> [listeners EXCEPT
                                 ![port] = Some([session[1] EXCEPT
                                                    !.written = @ + 1])],
               res |-> ToolReturned(TRUE, "", <<>>)]
    ELSE IF action = "read"
    THEN [ctx |-> _log(ctx, Payload(tool, label, Some(TRUE), Some(0),
                                    session[1].stdout, session[1].stderr,
                                    None, None)),
          listeners |-> IF drain_output
                        THEN [listeners EXCEPT
                                 ![port] = Some([session[1] EXCEPT
                                                    !.stdout = <<>>,
                                                    !.stderr = <<>>])]
                        ELSE listeners,
          res |-> ToolReturned(TRUE, "", session[1].stdout)]
    ELSE [ctx |-> _log(ctx, Payload(tool, label, Some(TRUE),
                                    IF Running(session[1])
                                    THEN Some(0 - 15)
                                    ELSE session[1].returncode,
                                    session[1].stdout, session[1].stderr,
                                    None, None)),
          listeners |-> [listeners EXCEPT ![port] = None],
          res |-> ToolReturned(TRUE, "", session[1].stdout)]

\* build_listener_tool.start_listener
start_listener ==
    /\ invocations < MaxInvocations
    /\ \E c \in ListenerCalls :
          \E done \in {listener_outcome(ToolCtx, c.action, c.port,
                                        c.has_input,
                                        ArgOrDefault(c.drain_output, TRUE),
                                        c.nc_found)} :
              /\ AfterTool(done.ctx, done.res)
              /\ listeners' = done.listeners
              /\ tool_call' = ToolCall("start_listener", c)
    /\ UNCHANGED <<sessions, thread_vars, tui_vars>>

\* the nc process of a listener exits on its own
ProcessExits ==
    /\ \E port \in Ports :
          /\ listeners[port] # None
          /\ Running(listeners[port][1])
          /\ listeners' = [listeners EXCEPT
                              ![port] = Some([@[1] EXCEPT
                                                 !.returncode = Some(0)])]
    /\ UNCHANGED <<on_command, tool_trace, uuids, sessions, tool_result,
                   tool_call, invocations, thread_vars, tui_vars, agent_vars,
                   stream_vars, report_vars>>

\* build_listener_tool._reader: a line the process wrote is appended to the
\* buffer of its stream
_reader ==
    /\ \E port \in Ports, key \in {"stdout", "stderr"} :
          /\ listeners[port] # None
          /\ Running(listeners[port][1])
          /\ Len(listeners[port][1].stdout) + Len(listeners[port][1].stderr)
                < MaxLines
          /\ listeners' =
                [listeners EXCEPT
                    ![port] = Some(IF key = "stdout"
                                   THEN [@[1] EXCEPT
                                            !.stdout = Append(@, "line")]
                                   ELSE [@[1] EXCEPT
                                            !.stderr = Append(@, "line")])]
    /\ UNCHANGED <<on_command, tool_trace, uuids, sessions, tool_result,
                   tool_call, invocations, thread_vars, tui_vars, agent_vars,
                   stream_vars, report_vars>>

\* _ensure_session's new entry: the names the code has defined, and the
\* number of history entries
NewSession == [globals |-> {}, history |-> 0]

\* the code of a call: blank, an assignment, an expression reading x (a
\* NameError where x is not defined), a call of sys.exit (SystemExit, which
\* is no Exception)
Codes == {"blank", "x = 1", "x", "sys.exit()"}

\* one call of python_code_executor: its arguments; requirements is "none",
\* or "fail" for a package pip cannot install; main_thread tells whether the
\* caller runs on the interpreter's main thread (signal.signal raises
\* ValueError elsewhere)
PCall(code, session_id, reset_session, requirements, main_thread) ==
    [code |-> code, session_id |-> session_id,
     reset_session |-> reset_session, requirements |-> requirements,
     main_thread |-> main_thread]

PythonCalls ==
    {PCall(code, session_id, reset_session, "none", TRUE) :
        code \in Codes \ {"sys.exit()"}, session_id \in {None, Some("s2")},
        reset_session \in BOOLEAN}
    \cup {PCall("x = 1", None, FALSE, "fail", TRUE),
          PCall("sys.exit()", None, FALSE, "none", TRUE),
          PCall("x = 1", None, FALSE, "none", FALSE)}

\* python_code_executor keeping a single namespace whatever the session id
python_outcome_one_namespace(ctx, code, session_id, reset_session, requirements, main_thread) ==
    IF code = "blank"
    THEN [ctx |-> ctx, sessions |-> sessions, res |-> ToolRaised("ValueError")]
    ELSE
    LET tool == "python_code_executor"
        sid == "default"
        ensured == IF reset_session \/ sessions[sid] = None
                   THEN [sessions EXCEPT ![sid] = Some(NewSession)]
                   ELSE sessions
        session == ensured[sid][1]
    IN
    IF requirements = "fail"
    THEN [ctx |-> _log(ctx, Payload(tool, <<"pip", "install">>, Some(FALSE),
                                    Some(1), <<>>, <<"err">>, None, None)),
          sessions |-> ensured,
          res |-> ToolReturned(FALSE, "pip install failed", <<>>)]
    ELSE IF ~main_thread
    THEN [ctx |-> ctx, sessions |-> ensured,
          res |-> ToolRaised("ValueError: signal only works in main thread")]
    ELSE IF code = "sys.exit()"
    THEN [ctx |-> ctx, sessions |-> ensured, res |-> ToolRaised("SystemExit")]
    ELSE
    LET ok == code = "x = 1" \/ (code = "x" /\ "x" \in session.globals)
        globals == CASE code = "x = 1" -> session.globals \cup {"x"}
                     [] code = "x" /\ ok -> session.globals \cup {"_"}
                     [] OTHER -> session.globals
    IN  [ctx |-> _log(ctx, Payload(tool, <<code>>, Some(ok),
                                   Some(IF ok THEN 0 ELSE 1), <<>>, <<>>,
                                   None, None)),
         sessions |-> [ensured EXCEPT
                          ![sid] = Some([globals |-> globals,
                                         history |-> session.history + 1])],
         res |-> ToolReturned(ok, IF ok THEN "" ELSE "Traceback", <<>>)]

\* python_code_executor: the context and the sessions it leaves, its result
python_outcome(ctx, code, session_id, reset_session, requirements, main_thread) ==
    IF code = "blank"
    THEN [ctx |-> ctx, sessions |-> sessions, res |-> ToolRaised("ValueError")]
    ELSE
    LET tool == "python_code_executor"
        sid == IF session_id = None THEN "default" ELSE session_id[1]
        ensured == IF reset_session \/ sessions[sid] = None
                   THEN [sessions EXCEPT ![sid] = Some(NewSession)]
                   ELSE sessions
        session == ensured[sid][1]
    IN
    IF requirements = "fail"
    THEN [ctx |-> _log(ctx, Payload(tool, <<"pip", "install">>, Some(FALSE),
                                    Some(1), <<>>, <<"err">>, None, None)),
          sessions |-> ensured,
          res |-> ToolReturned(FALSE, "pip install failed", <<>>)]
    ELSE IF ~main_thread
    THEN [ctx |-> ctx, sessions |-> ensured,
          res |-> ToolRaised("ValueError: signal only works in main thread")]
    ELSE IF code = "sys.exit()"
    THEN [ctx |-> ctx, sessions |-> ensured, res |-> ToolRaised("SystemExit")]
    ELSE
    LET ok == code = "x = 1" \/ (code = "x" /\ "x" \in session.globals)
        globals == CASE code = "x = 1" -> session.globals \cup {"x"}
                     [] code = "x" /\ ok -> session.globals \cup {"_"}
                     [] OTHER -> session.globals
    IN  [ctx |-> _log(ctx, Payload(tool, <<code>>, Some(ok),
                                   Some(IF ok THEN 0 ELSE 1), <<>>, <<>>,
                                   None, None)),
         sessions |-> [ensured EXCEPT
                          ![sid] = Some([globals |-> globals,
                                         history |-> session.history + 1])],
         res |-> ToolReturned(ok, IF ok THEN "" ELSE "Traceback", <<>>)]

\* build_python_executor_tool.python_code_executor
python_code_executor ==
    /\ invocations < MaxInvocations
    /\ \E c \in PythonCalls :
          \E done \in {python_outcome(ToolCtx, c.code, c.session_id,
                                      c.reset_session, c.requirements,
                                      c.main_thread)} :
              /\ AfterTool(done.ctx, done.res)
              /\ sessions' = done.sessions
              /\ tool_call' = ToolCall("python_code_executor", c)
    /\ UNCHANGED <<listeners, thread_vars, tui_vars>>

\* the tools of one attempt, built with or without an observer; no run and
\* no stream is followed
ToolInit ==
    /\ StreamStart
    /\ NoThreads
    /\ NoTui
    /\ status_console = FALSE
    /\ ToolStart
    /\ on_command \in BOOLEAN
    /\ models_order = <<>>
    /\ pc = "done"
    /\ tried_models = <<>>
    /\ attempt = 0
    /\ last_exception = None
    /\ rate_limit_notes = <<>>
    /\ incomplete_response_notes = <<>>
    /\ report = NewReport
    /\ result = NoResult
    /\ calls = <<>>
    /\ prompt = <<>>
    /\ run_no = 0
    /\ total_calls = 0

ToolNext ==
    \/ execute_system_command_impl
    \/ searchsploit_lookup
    \/ start_listener
    \/ python_code_executor
    \/ ProcessExits
    \/ _reader

ToolSpec == ToolInit /\ [][ToolNext]_vars

(***************************************************************************)
(* reporting.py: the export of a report, and its reload.  The repository   *)
(* holds no reader of the snapshot; the reload is modelled from the        *)
(* specification's words (a report rebuilt from the snapshot's entries).   *)
(***************************************************************************)

MaxRecords == 2

\* datetime.isoformat()
isoformat(time) == <<"iso", time>>

\* an export that writes the output token count where the total belongs
_as_serializable_total_from_output(rep) ==
    [end_time |-> IF rep.end_time # None
                  THEN Some(isoformat(rep.end_time[1]))
                  ELSE None,
     commands |-> [i \in 1..Len(rep.commands) |-> rep.commands[i]],
     thinking_summary |-> rep.thinking_summary,
     final_analysis |-> rep.final_analysis,
     thinking_tokens |-> rep.thinking_tokens,
     output_tokens |-> rep.output_tokens,
     total_tokens |-> rep.output_tokens,
     python_executor_invocations |-> rep.python_executor_invocations,
     total_tool_invocations |-> rep.total_tool_invocations]

\* ScanReport._as_serializable: record.__dict__ of every command record, the
\* end time as text, every other field as it is
_as_serializable(rep) ==
    [end_time |-> IF rep.end_time # None
                  THEN Some(isoformat(rep.end_time[1]))
                  ELSE None,
     commands |-> [i \in 1..Len(rep.commands) |-> rep.commands[i]],
     thinking_summary |-> rep.thinking_summary,
     final_analysis |-> rep.final_analysis,
     thinking_tokens |-> rep.thinking_tokens,
     output_tokens |-> rep.output_tokens,
     total_tokens |-> rep.total_tokens,
     python_executor_invocations |-> rep.python_executor_invocations,
     total_tool_invocations |-> rep.total_tool_invocations]

\* the reload of a snapshot: a report whose fields are the snapshot's
\* entries, the end time parsed back from its text
reload(snap) ==
    [end_time |-> IF snap.end_time # None
                  THEN Some(snap.end_time[1][2])
                  ELSE None,
     commands |-> [i \in 1..Len(snap.commands) |->
                      [command |-> snap.commands[i].command,
                       success |-> snap.commands[i].success,
                       return_code |-> snap.commands[i].return_code,
                       stdout |-> snap.commands[i].stdout,
                       stderr |-> snap.commands[i].stderr,
                       tool_name |-> snap.commands[i].tool_name]],
     python_executor_invocations |-> snap.python_executor_invocations,
     total_tool_invocations |-> snap.total_tool_invocations,
     thinking_summary |-> snap.thinking_summary,
     final_analysis |-> snap.final_analysis,
     thinking_tokens |-> snap.thinking_tokens,
     output_tokens |-> snap.output_tokens,
     total_tokens |-> snap.total_tokens]

\* payloads the tools log: a python call that succeeded, a command that
\* timed out
LoggedPayloads ==
    {Payload("python_code_executor", <<"x = 1">>, Some(TRUE), Some(0), <<>>,
             <<>>, None, None),
     Payload("build_system_command_tool", <<"id">>, Some(FALSE), None, <<>>,
             <<"err">>, Some("end"), Some(1))}

\* the report after log_command of each payload in turn
RECURSIVE LogAll(_, _)
LogAll(rep, payloads) ==
    IF payloads = <<>> THEN rep
    ELSE LogAll(log_command(rep, Head(payloads)), Tail(payloads))

\* the token counts a response's usage may carry
TokenCounts == {None, Some(5), Some(15)}

\* reports at the end of a scan: commands logged, and what
\* update_from_response stored of the responses
ExportReports ==
    {[LogAll(NewReport, payloads) EXCEPT
         !.end_time = end_time,
         !.final_analysis = final_analysis,
         !.thinking_summary = IF final_analysis = None
                              THEN <<>>
                              ELSE <<<<"t0">>>>,
         !.thinking_tokens = thinking,
         !.output_tokens = thinking,
         !.total_tokens = total] :
        payloads \in SeqsUpTo(LoggedPayloads, MaxRecords),
        end_time \in {None, Now},
        final_analysis \in {None, Some(<<"Done">>)},
        thinking \in {None, Some(5)},
        total \in TokenCounts}

\* report._as_serializable()
Export ==
    /\ snapshot = None
    /\ snapshot' = Some(_as_serializable(report))
    /\ UNCHANGED <<response, resolved, labels, updates, reloaded, agent_vars,
                   stream_vars, tool_vars, tui_vars>>

\* the snapshot is read back
Reload ==
    /\ snapshot # None
    /\ reloaded = None
    /\ reloaded' = Some(reload(snapshot[1]))
    /\ UNCHANGED <<response, resolved, labels, updates, snapshot, agent_vars,
                   stream_vars, tool_vars, tui_vars>>

\* a finished scan's report, about to be saved
ExportInit ==
    /\ StreamStart
    /\ NoThreads
    /\ NoTui
    /\ status_console = FALSE
    /\ ToolStart
    /\ on_command = TRUE
    /\ models_order = <<>>
    /\ pc = "done"
    /\ tried_models = <<>>
    /\ attempt = 0
    /\ last_exception = None
    /\ rate_limit_notes = <<>>
    /\ incomplete_response_notes = <<>>
    /\ report \in ExportReports
    /\ result = NoResult
    /\ calls = <<>>
    /\ prompt = <<>>
    /\ run_no = 0
    /\ total_calls = 0

ExportNext == Export \/ Reload

ExportSpec == ExportInit /\ [][ExportNext]_vars

(***************************************************************************)
(* BounterAgent.run, lines 279-319: the prompt of an attempt, from any      *)
(* state in which the while loop may build one.  The command log holds      *)
(* what the tools logged during earlier backend calls.                      *)
(***************************************************************************)

\* payloads the tools log during a backend call
PromptPayloads ==
    {Payload("python_code_executor", <<"x = 1">>, Some(TRUE), Some(0), <<>>,
             <<>>, None, None),
     Payload("build_system_command_tool", <<"for", "i">>, Some(FALSE), None,
             <<>>, <<"err">>, Some("end"), Some(1)),
     Payload("start_listener", _command_label("read", 4444), Some(TRUE),
             None, <<"hello">>, <<>>, None, None)}

\* what update_from_response has left in the report
PromptReports ==
    {[LogAll(NewReport, payloads) EXCEPT
         !.thinking_summary = thinking_summary,
         !.final_analysis = final_analysis] :
        payloads \in SeqsUpTo(PromptPayloads, MaxRecords),
        thinking_summary \in {<<>>, <<<<"plan">>, <<"t2">>>>},
        final_analysis \in {None, Some(<<"Done">>)}}

\* the rate-limit notes of the run
PromptRateNotes(tried) ==
    IF Len(tried) > 1
    THEN {<<>>, <<RateLimitNote(tried[1], <<"slow", "_", "down">>)>>}
    ELSE {<<>>}

\* the incomplete-response notes held; an attempt that follows another on
\* the same model follows the note of that attempt
PromptIncompleteNotes(tried, made) ==
    LET model_name == tried[Len(tried)]
        earlier == {<<>>, <<IncompleteMessage("m2", 1)>>,
                    <<IncompleteMessage("m1", 2),
                      NoFinalExhaustionNote("m1", 2)>>}
    IN IF made = 0 THEN earlier
       ELSE {_handle_incomplete_response(notes, model_name, made) :
                notes \in earlier}

\* the while loop is about to build the prompt of attempt number attempt + 1
PromptInit ==
    /\ StreamStart
    /\ NoThreads
    /\ NoTui
    /\ status_console = FALSE
    /\ ToolStart
    /\ on_command = TRUE
    /\ models_order \in {q \in SeqsUpTo(ModelNames, MaxModels) : q # <<>>}
    /\ pc = "while"
    /\ \E n \in 1..Len(models_order) : tried_models = SubSeq(models_order, 1, n)
    /\ attempt \in 0..(INCOMPLETE_RESPONSE_RETRIES - 1)
    /\ last_exception = None
    /\ rate_limit_notes \in PromptRateNotes(tried_models)
    /\ incomplete_response_notes \in PromptIncompleteNotes(tried_models, attempt)
    /\ report \in PromptReports
    /\ result = NoResult
    /\ calls = <<>>
    /\ prompt = <<>>
    /\ run_no = 1
    /\ total_calls = 0

\* lines 279-319
BuildPrompt ==
    /\ pc = "while"
    /\ prompt' = AttemptPrompt(tried_models, report, rate_limit_notes,
                               incomplete_response_notes)
    /\ pc' = "prompted"
    /\ UNCHANGED <<models_order, tried_models, attempt, last_exception,
                   rate_limit_notes, incomplete_response_notes, report,
                   result, calls, run_no, total_calls>>
    /\ UNCHANGED <<stream_vars, report_vars, tool_vars, tui_vars>>

PromptNext == BuildPrompt

PromptSpec == PromptInit /\ [][PromptNext]_vars

(***************************************************************************)
(* tools.py, build_listener_tool: one tracked listener followed thread by   *)
(* thread.  The two reader threads (_reader, lines 436-444) take lines from *)
(* the pipes of the nc process and append them to the session's buffers     *)
(* under session["lock"]; the tool thread runs read and stop calls, which   *)
(* take the buffers through _drain_buffer (lines 427-434) under the same    *)
(* lock.  The reader threads are daemon threads that no call joins.         *)
(***************************************************************************)

\* lines the process writes in all
MaxOutput == 2

OutputLines == <<"l1", "l2", "l3", "l4">>

\* the lines the calls returned under a key
RECURSIVE Returned(_, _)
Returned(rets, key) ==
    IF rets = <<>> THEN <<>>
    ELSE rets[1][key] \o Returned(Tail(rets), key)

\* the lines the process has written so far
LinesSeen ==
    UNION {SeqToSet(pipe[key]) \cup SeqToSet(buffer[key])
             \cup SeqToSet(line_read[key])
             \cup (IF call = NoCall THEN {} ELSE SeqToSet(call.content[key]))
             \cup SeqToSet(Returned(returns, key)) : key \in Keys}

ThreadUnchanged ==
    UNCHANGED <<on_command, tool_trace, uuids, listeners, sessions,
                tool_result, tool_call, invocations, agent_vars, stream_vars,
                report_vars, tui_vars>>

\* the nc process writes a line to one of its pipes
ProcessWrites ==
    /\ process = "running"
    /\ Cardinality(LinesSeen) < MaxOutput
    /\ \E key \in Keys :
          pipe' = [pipe EXCEPT
                        ![key] = Append(@, OutputLines[Cardinality(LinesSeen) + 1])]
    /\ UNCHANGED <<process, tracked, line_read, reader_pc, buffer, lock, call,
                   returns>>
    /\ ThreadUnchanged

\* _reader: stream.readline() returns the next line, or "" at the end of
\* the pipe of a process that has exited (lines 438-440)
Readline ==
    /\ \E key \in Keys :
          /\ reader_pc[key] = "readline"
          /\ \/ /\ pipe[key] # <<>>
                /\ line_read' = [line_read EXCEPT ![key] = Some(Head(pipe[key]))]
                /\ pipe' = [pipe EXCEPT ![key] = Tail(@)]
                /\ reader_pc' = [reader_pc EXCEPT ![key] = "with lock"]
             \/ /\ pipe[key] = <<>>
                /\ process = "exited"
                /\ reader_pc' = [reader_pc EXCEPT ![key] = "closed"]
                /\ UNCHANGED <<line_read, pipe>>
    /\ UNCHANGED <<process, tracked, buffer, lock, call, returns>>
    /\ ThreadUnchanged

\* _reader: `with lock:` is entered (line 441)
ReaderAcquires ==
    /\ lock = None
    /\ \E key \in Keys :
          /\ reader_pc[key] = "with lock"
          /\ lock' = Some(key)
          /\ reader_pc' = [reader_pc EXCEPT ![key] = "append"]
    /\ UNCHANGED <<process, tracked, pipe, line_read, buffer, call, returns>>
    /\ ThreadUnchanged

\* _reader: buffer.append(chunk) and the end of the with block (line 442)
ReaderAppends ==
    /\ \E key \in Keys :
          /\ reader_pc[key] = "append"
          /\ buffer' = [buffer EXCEPT ![key] = Append(@, line_read[key][1])]
          /\ line_read' = [line_read EXCEPT ![key] = None]
          /\ reader_pc' = [reader_pc EXCEPT ![key] = "readline"]
    /\ lock' = None
    /\ UNCHANGED <<process, tracked, pipe, call, returns>>
    /\ ThreadUnchanged

\* the tool thread about to call _drain_buffer for `key`
Draining(action, drain, key, content) ==
    [pc |-> "with lock", action |-> action, drain |-> drain, key |-> key,
     content |-> content]

\* start_listener(action="read", drain_output=drain) up to its first
\* _drain_buffer (lines 581-587, 640)
CallRead ==
    /\ call = NoCall
    /\ tracked
    /\ invocations < MaxInvocations
    /\ \E drain \in BOOLEAN :
          call' = Draining("read", drain, "stdout", [key \in Keys |-> <<>>])
    /\ UNCHANGED <<process, tracked, pipe, line_read, reader_pc, buffer, lock,
                   returns>>
    /\ ThreadUnchanged

\* start_listener(action="stop") up to its first _drain_buffer: the process
\* is terminated and waited for, the port leaves the registry (lines
\* 665-671)
CallStop ==
    /\ call = NoCall
    /\ tracked
    /\ invocations < MaxInvocations
    /\ process' = "exited"
    /\ tracked' = FALSE
    /\ call' = Draining("stop", TRUE, "stdout", [key \in Keys |-> <<>>])
    /\ UNCHANGED <<pipe, line_read, reader_pc, buffer, lock, returns>>
    /\ ThreadUnchanged

\* _drain_buffer: `with lock:` is entered (line 430)
ToolAcquires ==
    /\ lock = None
    /\ call.pc = "with lock"
    /\ lock' = Some("tool")
    /\ call' = [call EXCEPT !.pc = "drain"]
    /\ UNCHANGED <<process, tracked, pipe, line_read, reader_pc, buffer,
                   returns>>
    /\ ThreadUnchanged

\* a variant that reads the buffer and leaves it filled
_drain_buffer_keeping(buf, drain) == [content |-> buf, buffer |-> buf]

\* _drain_buffer inside the lock: the content, and the buffer it leaves
\* (lines 431-433)
_drain_buffer(buf, drain) ==
    [content |-> buf, buffer |-> IF drain THEN <<>> ELSE buf]

\* _drain_buffer: the body and the end of the with block; then the next
\* _drain_buffer, or the rest of the call
ToolDrains ==
    /\ call.pc = "drain"
    /\ \E done \in {_drain_buffer(buffer[call.key], call.drain)} :
          /\ buffer' = [buffer EXCEPT ![call.key] = done.buffer]
          /\ call' = [call EXCEPT
                         !.content = [@ EXCEPT ![call.key] = done.content],
                         !.key = "stderr",
                         !.pc = IF call.key = "stdout" THEN "with lock"
                                ELSE "log"]
    /\ lock' = None
    /\ UNCHANGED <<process, tracked, pipe, line_read, reader_pc, returns>>
    /\ ThreadUnchanged

\* the end of the call: _log(payload) and return payload (lines 651-661,
\* 674-687)
ToolReturns ==
    /\ call.pc = "log"
    /\ AfterTool(_log(ToolCtx,
                      Payload("start_listener",
                              _command_label(call.action, 4444), Some(TRUE),
                              Some(0), call.content.stdout,
                              call.content.stderr, None, None)),
                 ToolReturned(TRUE, "", call.content.stdout))
    /\ returns' = Append(returns,
                         [action |-> call.action, drained |-> call.drain,
                          stdout |-> call.content.stdout,
                          stderr |-> call.content.stderr])
    /\ call' = NoCall
    /\ UNCHANGED <<listeners, sessions, tool_call, process, tracked, pipe,
                   line_read, reader_pc, buffer, lock, tui_vars>>

\* a listener that start_listener(action="start") has just started: the
\* process runs, its readers wait for lines, the registry holds the session
\* (lines 533-559)
ThreadInit ==
    /\ StreamStart
    /\ NoTui
    /\ status_console = FALSE
    /\ ToolStart
    /\ on_command = TRUE
    /\ process = "running"
    /\ tracked = TRUE
    /\ pipe = [key \in Keys |-> <<>>]
    /\ line_read = [key \in Keys |-> None]
    /\ reader_pc = [key \in Keys |-> "readline"]
    /\ buffer = [key \in Keys |-> <<>>]
    /\ lock = None
    /\ call = NoCall
    /\ returns = <<>>
    /\ models_order = <<>>
    /\ pc = "done"
    /\ tried_models = <<>>
    /\ attempt = 0
    /\ last_exception = None
    /\ rate_limit_notes = <<>>
    /\ incomplete_response_notes = <<>>
    /\ report = NewReport
    /\ result = NoResult
    /\ calls = <<>>
    /\ prompt = <<>>
    /\ run_no = 0
    /\ total_calls = 0

ThreadNext ==
    \/ ProcessWrites
    \/ Readline
    \/ ReaderAcquires
    \/ ReaderAppends
    \/ CallRead
    \/ CallStop
    \/ ToolAcquires
    \/ ToolDrains
    \/ ToolReturns

ThreadSpec == ThreadInit /\ [][ThreadNext]_vars

(***************************************************************************)
(* Vocabulary of the claims: what a backend outcome is, read off the        *)
(* chunks and the exception themselves.                                     *)
(***************************************************************************)
ChunkParts(chunk) ==
    IF chunk.candidates = None THEN <<>>
    ELSE Flatten([i \in 1..Len(chunk.candidates[1]) |->
            IF chunk.candidates[1][i].content = None THEN <<>>
            ELSE chunk.candidates[1][i].content[1].parts])

StreamParts(stream) == Flatten([i \in 1..Len(stream) |-> ChunkParts(stream[i])])

IsStream(name) == name \in DOMAIN StreamTable
IsError(name) == name \in DOMAIN ErrorTable

\* the backend call succeeded: a stream of at least one chunk
Succeeded(name) == IsStream(name) /\ StreamTable[name] # <<>>

\* the stream yielded zero chunks
ZeroChunks(name) == IsStream(name) /\ StreamTable[name] = <<>>

\* some part of the response says a rate-limit keyword, in any case
SaysRateLimit(parts) ==
    \E i \in 1..Len(parts) : \E k \in RATE_LIMIT_KEYWORDS :
        Contains(Lower(parts[i].text), k)

\* a part marked as a thought (the pool marks thoughts with thought = true)
MarkedThought(part) == part.thought.tag = "bool" /\ part.thought.b

\* the parts carry final-answer text
HasFinalText(parts) ==
    \E i \in 1..Len(parts) :
        ~MarkedThought(parts[i]) /\ Strip(parts[i].text) # <<>>

\* the error is a rate/availability limit by its status code or its message
LimitError(e) ==
    \/ e.code \in {Some(429), Some(503)}
    \/ \E k \in ERROR_KEYWORDS :
          Contains(Lower(e.message), k) \/ Contains(Lower(e.str), k)

NoChunksError(e) ==
    Contains(Lower(e.str), <<"no", "_", "streaming", "_", "chunks">>)

RunEnded == pc = "idle" /\ result.kind # "none"

IsLast(i) == i = Len(calls)

\* call i+1 exists and is the next attempt on the same model
RetriedAfter(i) ==
    /\ IsLast(i) => pc = "while" /\ Len(tried_models) = calls[i].pos
    /\ ~IsLast(i) => /\ calls[i + 1].pos = calls[i].pos
                     /\ calls[i + 1].attempt = calls[i].attempt + 1

\* the controller left the model of call i: the run did not end at call i
\* by returning or by raising from the attempt, and the next call, if any,
\* is the first attempt on the next entry of the list
AdvancedAfter(i) ==
    /\ IsLast(i) => \/ pc = "for"
                    \/ pc = "while" /\ Len(tried_models) = calls[i].pos + 1
                                    /\ attempt = 0
                    \/ pc = "idle" /\ result.kind = "raised" /\ result.exhausted
    /\ \A j \in (i + 1)..Len(calls) : calls[j].pos > calls[i].pos
    /\ ~IsLast(i) => /\ calls[i + 1].pos = calls[i].pos + 1
                     /\ calls[i + 1].attempt = 1

(***************************************************************************)
(* C1: when a backend call succeeds and the text of some part of the        *)
(* response contains a rate-limit keyword (in any case), the controller     *)
(* makes no further attempt on that entry of the list, a rate-limit note    *)
(* naming the model is held, and the next backend call of the run goes to   *)
(* the next model of the list.                                              *)
(***************************************************************************)
C1_RateLimitTextAdvances ==
    \A i \in 1..Len(calls) :
        (Succeeded(calls[i].outcome)
            /\ SaysRateLimit(StreamParts(StreamTable[calls[i].outcome])))
        => /\ AdvancedAfter(i)
           /\ \E n \in 1..Len(rate_limit_notes) :
                  Contains(rate_limit_notes[n], <<calls[i].model>>)

C1_Witness ==
    \E i \in 1..Len(calls) :
        /\ Succeeded(calls[i].outcome)
        /\ SaysRateLimit(StreamParts(StreamTable[calls[i].outcome]))
        /\ ~IsLast(i)

(***************************************************************************)
(* C2: with models_order = [m1, m2], when every call to m1 fails with a     *)
(* transport error of status code 429 (a ClientError, whose message names   *)
(* no limit) and m2 answers with a complete response, the run makes exactly *)
(* one call to m1, then calls m2, and returns m2's response without raising.*)
(***************************************************************************)
Is429(name) ==
    IsError(name) /\ ErrorTable[name].cls = "ClientError"
        /\ ErrorTable[name].code = Some(429)

IsComplete(name) ==
    /\ Succeeded(name)
    /\ HasFinalText(StreamParts(StreamTable[name]))
    /\ ~SaysRateLimit(StreamParts(StreamTable[name]))

C2_Scenario ==
    /\ models_order = <<"m1", "m2">>
    /\ \A i \in 1..Len(calls) :
          /\ calls[i].model = "m1" => Is429(calls[i].outcome)
          /\ calls[i].model = "m2" => IsComplete(calls[i].outcome)

C2_FailoverOn429 ==
    C2_Scenario =>
        /\ Cardinality({i \in 1..Len(calls) : calls[i].model = "m1"}) <= 1
        /\ Len(calls) >= 1 => calls[1].model = "m1"
        /\ Len(calls) >= 2 => calls[2].model = "m2"
        /\ RunEnded =>
              /\ Len(calls) = 2
              /\ result.kind = "returned"
              /\ result.value =
                    _stream_model_response(StreamTable[calls[2].outcome]).response[1]

C2_Witness ==
    /\ C2_Scenario
    /\ RunEnded
    /\ Len(calls) = 2
    /\ result.kind = "returned"

(***************************************************************************)
(* C3: whenever a model's successful response carries no final-answer       *)
(* (non-thought) text (and names no rate limit), the same model is called   *)
(* again, and after its second such response the controller advances to the *)
(* next model: such a model receives exactly 2 backend calls.               *)
(***************************************************************************)
LacksFinalText(name) ==
    /\ Succeeded(name)
    /\ StreamParts(StreamTable[name]) # <<>>
    /\ ~HasFinalText(StreamParts(StreamTable[name]))
    /\ ~SaysRateLimit(StreamParts(StreamTable[name]))

C3_IncompleteRetriedTwice ==
    \A i \in 1..Len(calls) :
        LacksFinalText(calls[i].outcome) =>
            /\ calls[i].attempt <= INCOMPLETE_RESPONSE_RETRIES
            /\ calls[i].attempt < INCOMPLETE_RESPONSE_RETRIES => RetriedAfter(i)
            /\ calls[i].attempt = INCOMPLETE_RESPONSE_RETRIES => AdvancedAfter(i)

(***************************************************************************)
(* C4: run returns a response only when that response itself carries        *)
(* final-answer (non-thought) text and no rate-limit keyword, whatever      *)
(* earlier attempts of the run produced.                                    *)
(***************************************************************************)
C4_ReturnedIsComplete ==
    result.kind = "returned" =>
        /\ HasFinalText(AllParts(result.value))
        /\ ~SaysRateLimit(AllParts(result.value))

(***************************************************************************)
(* C5: when a backend call raises an error that is neither a                *)
(* rate/availability limit (by status code or message) nor a "no streaming  *)
(* chunks" error, run raises that same error at once and makes no further   *)
(* backend call, even when untried models remain.                           *)
(***************************************************************************)
IsHardError(name) ==
    /\ IsError(name)
    /\ ~LimitError(ErrorTable[name])
    /\ ~NoChunksError(ErrorTable[name])

C5_HardErrorPropagates ==
    \A i \in 1..Len(calls) :
        IsHardError(calls[i].outcome) =>
            /\ IsLast(i)
            /\ pc = "idle"
            /\ result.kind = "raised"
            /\ ~result.exhausted
            /\ result.value = Raised(ErrorTable[calls[i].outcome], i)

C5_Witness ==
    \E i \in 1..Len(calls) :
        /\ IsHardError(calls[i].outcome)
        /\ calls[i].pos < Len(models_order)
        /\ result.kind = "raised"

(***************************************************************************)
(* C6: every transport error whose status code is 429 or 503 is classified  *)
(* RATE_LIMITED, whatever its message and whatever its exception type: a    *)
(* rate-limit note naming the model is recorded and the controller advances *)
(* to the next model instead of raising.                                    *)
(***************************************************************************)
HasLimitCode(name) ==
    IsError(name) /\ ErrorTable[name].code \in {Some(429), Some(503)}

C6_LimitCodeAdvances ==
    \A i \in 1..Len(calls) :
        HasLimitCode(calls[i].outcome) =>
            /\ AdvancedAfter(i)
            /\ \E n \in 1..Len(rate_limit_notes) :
                  Contains(rate_limit_notes[n], <<calls[i].model>>)

(***************************************************************************)
(* C7: a backend call whose stream yields zero chunks is handled like an    *)
(* INCOMPLETE response: an incomplete-response note for that attempt is     *)
(* held, the same model is retried until it has had 2 attempts, then the    *)
(* controller advances to the next model; the empty-stream error reaches    *)
(* the caller only when the list of models is exhausted.                    *)
(***************************************************************************)
C7_EmptyStreamIsIncomplete ==
    \A i \in 1..Len(calls) :
        ZeroChunks(calls[i].outcome) =>
            /\ calls[i].attempt <= INCOMPLETE_RESPONSE_RETRIES
            /\ calls[i].attempt < INCOMPLETE_RESPONSE_RETRIES => RetriedAfter(i)
            /\ calls[i].attempt = INCOMPLETE_RESPONSE_RETRIES => AdvancedAfter(i)
            /\ IsLast(i) =>
                  IncompleteMessage(calls[i].model, calls[i].attempt)
                      \in SeqToSet(incomplete_response_notes)
            /\ (result.kind = "raised" /\ result.value = Raised(EmptyStreamError, i))
                  => Len(tried_models) = Len(models_order) /\ result.exhausted

C7_Witness ==
    /\ Len(calls) >= 3
    /\ ZeroChunks(calls[1].outcome)
    /\ ZeroChunks(calls[2].outcome)
    /\ calls[3].pos = 2

(***************************************************************************)
(* C8: when run ends because every model of the list was exhausted, it      *)
(* raises the most recently captured backend error unchanged; when no error *)
(* was captured during the run (an empty model list included) it raises the *)
(* generic "No models available" error.                                     *)
(***************************************************************************)
\* the calls of the run in which the try statement caught an exception
Captured == {i \in 1..Len(calls) :
                IsError(calls[i].outcome) \/ ZeroChunks(calls[i].outcome)}

CapturedError(i) ==
    IF ZeroChunks(calls[i].outcome) THEN Raised(EmptyStreamError, i)
    ELSE Raised(ErrorTable[calls[i].outcome], i)

C8_ExhaustedRaisesLastError ==
    (RunEnded /\ result.kind = "raised" /\ result.exhausted) =>
        IF Captured = {}
        THEN result.value = Raised(NoModelsError, 0)
        ELSE \E i \in Captured :
                /\ \A j \in Captured : j <= i
                /\ result.value = CapturedError(i)

C8_Witness ==
    /\ RunEnded /\ result.kind = "raised" /\ result.exhausted
    /\ \E i \in Captured : i < Len(calls) /\ \A j \in Captured : j <= i

(***************************************************************************)
(* C9: after any sequence of incomplete responses and empty streams, over   *)
(* any number of models and runs, the incomplete-response note list holds   *)
(* at most 5 entries and no entry twice; notes are added at the end, and    *)
(* when adding would exceed 5 it is the oldest notes that are dropped, so   *)
(* the notes of an attempt that just ended on an empty stream are held.     *)
(***************************************************************************)
NoDuplicates(q) == \A i, j \in 1..Len(q) : q[i] = q[j] => i = j

\* new is old, or old with one note it did not hold added at the end and
\* the oldest note dropped when that made more than max_notes
AddedAtEnd(old, new) ==
    \/ new = old
    \/ /\ new # <<>>
       /\ new[Len(new)] \notin SeqToSet(old)
       /\ new = LastN(Append(old, new[Len(new)]), max_notes)

NotesStep ==
    LET old == incomplete_response_notes
        new == incomplete_response_notes'
    IN /\ Len(new) <= max_notes
       /\ NoDuplicates(new)
       /\ \/ new = <<>>
          \/ AddedAtEnd(old, new)
          \/ \E n \in SeqToSet(new) :
                /\ n \notin SeqToSet(old)
                /\ AddedAtEnd(LastN(Append(old, n), max_notes), new)
       /\ (Len(calls') = Len(calls) + 1 /\ ZeroChunks(calls'[Len(calls')].outcome))
             => LET c == calls'[Len(calls')] IN
                /\ IncompleteMessage(c.model, c.attempt) \in SeqToSet(new)
                /\ c.attempt = INCOMPLETE_RESPONSE_RETRIES
                      => NoChunksExhaustionNote(c.model, c.attempt) \in SeqToSet(new)

C9_IncompleteNotesBounded == [][NotesStep]_vars

\* six notes were recorded in this run and the first of them was dropped
C9_Witness ==
    /\ Len(calls) = 4
    /\ \A i \in 1..4 : ZeroChunks(calls[i].outcome)
    /\ calls[1].model # calls[3].model
    /\ Len(incomplete_response_notes) = max_notes
    /\ IncompleteMessage(calls[1].model, 1) \notin SeqToSet(incomplete_response_notes)
    /\ incomplete_response_notes[max_notes] = NoChunksExhaustionNote(calls[4].model, 2)

(***************************************************************************)
(* C10: in the first run of a newly constructed agent, the prompt of the    *)
(* first backend call carries no CONTEXT block and the prompt of every      *)
(* later backend call of that run (a retry of the same model or a call to   *)
(* the next model) carries one.                                             *)
(***************************************************************************)
C10_ContextAfterFirstCall ==
    run_no = 1 =>
        \A i \in 1..Len(calls) : calls[i].has_context <=> i > 1

C10_Witness ==
    /\ run_no = 1
    /\ Len(calls) >= 3
    /\ calls[2].pos = 1
    /\ calls[3].pos = 2
    /\ calls[3].has_context

(***************************************************************************)
(* C11: within one run the backend calls follow models_order from its first *)
(* entry: the first call goes to entry 1, every later call goes to the same *)
(* entry as the call before it or to the entry right after it, the model    *)
(* called is the one named at that entry, and an entry the controller has   *)
(* advanced past is never called again.  (A name that the list holds twice  *)
(* is called again at its later entry.)                                     *)
(***************************************************************************)
C11_CallsFollowListOrder ==
    /\ Len(calls) > 0 => calls[1].pos = 1
    /\ \A i \in 1..Len(calls) :
          /\ calls[i].pos \in 1..Len(models_order)
          /\ calls[i].model = models_order[calls[i].pos]
          /\ i > 1 => calls[i].pos \in {calls[i - 1].pos, calls[i - 1].pos + 1}
    /\ pc = "while" => Len(tried_models) >= 1
    /\ Len(calls) > 0 => calls[Len(calls)].pos <= Len(tried_models)

\* the second entry is called after the first was tried twice and abandoned
C11_Witness ==
    /\ Len(models_order) = 2
    /\ models_order[1] # models_order[2]
    /\ Len(calls) = 3
    /\ calls[1].pos = 1 /\ calls[2].pos = 1 /\ calls[3].pos = 2

\* C11 as worded: no model name is called again after the controller has
\* advanced past it
C11_ModelNeverCalledAgain ==
    /\ C11_CallsFollowListOrder
    /\ \A i, j \in 1..Len(calls) :
          calls[i].pos < calls[j].pos => calls[i].model # calls[j].model

(***************************************************************************)
(* Vocabulary of the stream claims                                          *)
(***************************************************************************)
CandidatesOf(r) == IF r.candidates = None THEN <<>> ELSE r.candidates[1]

PartsOf(candidate) ==
    IF candidate.content = None THEN <<>> ELSE candidate.content[1].parts

\* the index a candidate counts under: its own, or its 0-based place in
\* the chunk when it has none
ResolvedIndex(candidate, place) ==
    IF candidate.index = None THEN place - 1 ELSE candidate.index[1]

\* the resolved indices of a stream, in arrival order
ResolvedIndices(stream) ==
    Flatten([i \in 1..Len(stream) |->
               [p \in 1..Len(CandidatesOf(stream[i])) |->
                  ResolvedIndex(CandidatesOf(stream[i])[p], p)]])

RECURSIVE FirstOccurrences(_, _)
FirstOccurrences(q, seen) ==
    IF q = <<>> THEN <<>>
    ELSE IF Head(q) \in seen THEN FirstOccurrences(Tail(q), seen)
    ELSE <<Head(q)>> \o FirstOccurrences(Tail(q), seen \cup {Head(q)})

\* all parts a stream carried under index k, in arrival order
PartsCarried(stream, k) ==
    Flatten([i \in 1..Len(stream) |->
       Flatten([p \in 1..Len(CandidatesOf(stream[i])) |->
          IF ResolvedIndex(CandidatesOf(stream[i])[p], p) = k
          THEN PartsOf(CandidatesOf(stream[i])[p]) ELSE <<>>])])

StreamReturned == stream_pc = "done" /\ ~returned[1].raised

Response == returned[1].response[1]

C13_Step ==
    (Len(calls') = Len(calls) + 1 /\ ZeroChunks(calls'[Len(calls')].outcome))
        => /\ last_exception' # None
           /\ last_exception'[1].at = Len(calls')
           /\ last_exception'[1].cls = "Exception"
           /\ last_exception'[1].str =
                 <<"Model", "_", "returned", "_", "no", "_", "streaming",
                   "_", "chunks">>
           /\ report' = [report EXCEPT !.end_time = None]

C13_EmptyStreamRaises == [][C13_Step]_vars

\* an empty stream after a call that had filled the report
C13_Witness ==
    /\ Len(calls) = 2
    /\ calls[1].outcome = "quota_answer"
    /\ ZeroChunks(calls[2].outcome)
    /\ last_exception # None
    /\ NoChunksError(last_exception[1])
    /\ report.final_analysis # None

(***************************************************************************)
(* C14: in every response _stream_model_response returns, no two candidates *)
(* have the same index value, also when chunks omit the index of some or    *)
(* all of their candidates.                                                 *)
(***************************************************************************)
C14_IndicesDistinct ==
    StreamReturned =>
        LET got == CandidatesOf(Response)
        IN \A i, j \in 1..Len(got) : got[i].index = got[j].index => i = j

(***************************************************************************)
(* C15: for every stream of one or more chunks the returned response        *)
(* carries, as usage, prompt feedback, response id and model version, the   *)
(* value of the last chunk in which that field was not null (null when no   *)
(* chunk had one), also when no chunk carries a candidate.                  *)
(***************************************************************************)
\* the value of the last entry of q that is not null
LastNonNull(q) ==
    LET set == {i \in 1..Len(q) : q[i] # None}
    IN IF set = {} THEN None
       ELSE q[CHOOSE i \in set : \A j \in set : j <= i]

C15_LastNonNullMetadata ==
    (stream_pc = "done" /\ chunks # <<>>) =>
        /\ StreamReturned
        /\ Response.usage_metadata =
              LastNonNull([i \in 1..Len(chunks) |-> chunks[i].usage_metadata])
        /\ Response.prompt_feedback =
              LastNonNull([i \in 1..Len(chunks) |-> chunks[i].prompt_feedback])
        /\ Response.response_id =
              LastNonNull([i \in 1..Len(chunks) |-> chunks[i].response_id])
        /\ Response.model_version =
              LastNonNull([i \in 1..Len(chunks) |-> chunks[i].model_version])

(***************************************************************************)
(* C16: a part is classified by the ordered rule: a boolean thought marker  *)
(* decides alone; otherwise a non-null marker that is not a number equal    *)
(* to zero makes it a thought; otherwise a role equal to "thought" in any   *)
(* letter case; otherwise a kind containing "thought"; otherwise it is      *)
(* output.  A marker that is the number zero counts as no marker.  Both     *)
(* _resolve_thought_source and _is_thought_part follow the rule.            *)
(***************************************************************************)
RoleIsThought(part) ==
    part.role \in {Some(<<"thought">>), Some(<<"Thought">>), Some(<<"THOUGHT">>)}

KindHasThought(part) ==
    /\ part.kind_ # None
    /\ \E i \in 1..Len(part.kind_[1]) :
          part.kind_[1][i] \in {"thought", "Thought", "THOUGHT"}

\* the rule; zero_is_marker tells whether a marker that is the number zero
\* counts as a non-null marker
OrderedRule(part, zero_is_marker) ==
    LET marker == part.thought IN
    CASE marker.tag = "bool" -> marker.b
      [] marker.tag = "node" -> TRUE
      [] marker.tag = "num" /\ (marker.n # 0 \/ zero_is_marker) -> TRUE
      [] OTHER -> RoleIsThought(part) \/ KindHasThought(part)

C16_OrderedRule ==
    /\ \A i \in 1..Len(resolved) :
          resolved[i].is_thought = OrderedRule(resolved[i].part, FALSE)
    /\ \A i \in 1..Len(labels) :
          (labels[i].label = "thought") = OrderedRule(labels[i].part, FALSE)

\* thought=False with a role and a kind of thought was classified output,
\* by both functions
C16_Witness ==
    /\ Len(resolved) = 1 /\ Len(labels) = 1
    /\ resolved[1].part = labels[1].part
    /\ resolved[1].part.thought = BoolMarker(FALSE)
    /\ RoleIsThought(resolved[1].part) /\ KindHasThought(resolved[1].part)
    /\ ~resolved[1].is_thought
    /\ labels[1].label = "output"

\* C16 as worded: every non-null non-boolean marker makes the part a thought
C16_AnyNonNullMarkerIsThought ==
    /\ \A i \in 1..Len(resolved) :
          resolved[i].is_thought = OrderedRule(resolved[i].part, TRUE)
    /\ \A i \in 1..Len(labels) :
          (labels[i].label = "thought") = OrderedRule(labels[i].part, TRUE)

(***************************************************************************)
(* Vocabulary of the report claims                                          *)
(***************************************************************************)
\* the parts of the first candidate
FirstParts(r) ==
    IF r.candidates = None \/ r.candidates[1] = <<>> THEN <<>>
    ELSE PartsOf(r.candidates[1][1])

\* the trimmed text of each part of q that has some, in order
TrimmedTexts(q) ==
    LET t == [i \in 1..Len(q) |-> Strip(q[i].text)]
    IN SelectSeq(t, LAMBDA x : x # <<>>)

\* the part is classified by itself, not through a marker structure
OwnText(part) == part.thought.tag \in {"none", "bool"}

(***************************************************************************)
(* C17: update_from_response splits the parts of the first candidate by     *)
(* thought classification: the trimmed non-empty texts of the thought       *)
(* parts are appended, in part order, to thinking_summary, and              *)
(* final_analysis becomes the trimmed non-empty texts of the other parts,   *)
(* in part order, joined by newlines.  (Stated for parts classified by      *)
(* their own fields, and for final_analysis when there is such text.)       *)
(***************************************************************************)
C17_Step ==
    UpdateReport =>
        LET parts == FirstParts(response'[1])
            thoughts == SelectSeq(parts, LAMBDA q : OrderedRule(q, FALSE))
            others == SelectSeq(parts, LAMBDA q : ~OrderedRule(q, FALSE))
        IN (\A i \in 1..Len(parts) : OwnText(parts[i])) =>
              /\ report'.thinking_summary =
                    report.thinking_summary \o TrimmedTexts(thoughts)
              /\ TrimmedTexts(others) # <<>> =>
                    report'.final_analysis =
                        Some(Join(<<"\n">>, TrimmedTexts(others)))

C17_SplitByThought == [][C17_Step]_vars

(***************************************************************************)
(* C18: when the thought marker of a part is a nested structure,            *)
(* update_from_response records as thinking the texts found inside that     *)
(* structure, through its text and parts fields down to the recursion       *)
(* depth limit, and not the text of the wrapping part (which enters         *)
(* neither the thinking nor the final answer); and when the response has    *)
(* usage (and a first candidate), its thinking, output and total token      *)
(* counts are copied.                                                       *)
(***************************************************************************)
\* the trimmed texts inside a structure; the text of a node nested level
\* times is read at depth 2 * level + 1
RECURSIVE InsideTexts(_, _)
InsideTexts(node, level) ==
    IF 2 * level + 1 > MaxDepth THEN {}
    ELSE ({Strip(node.text)} \ {<<>>})
            \cup UNION {InsideTexts(node.parts[i], level + 1) :
                           i \in 1..Len(node.parts)}

\* the texts a thought part is to add to the thinking
ThoughtTexts(part) ==
    IF part.thought.tag = "node" THEN InsideTexts(part.thought.node, 0)
    ELSE IF part.thought.tag = "num" /\ part.thought.n # 0 THEN {}
    ELSE {Strip(part.text)} \ {<<>>}

IsWrapper(part) == part.thought.tag = "node"

C18_Step ==
    UpdateReport =>
        LET r == response'[1]
            parts == FirstParts(r)
            old == report.thinking_summary
            new == report'.thinking_summary
            added == SubSeq(new, Len(old) + 1, Len(new))
        IN /\ SubSeq(new, 1, Len(old)) = old
           /\ SeqToSet(added) =
                 UNION {ThoughtTexts(parts[i]) :
                          i \in {j \in 1..Len(parts) : OrderedRule(parts[j], FALSE)}}
           /\ IF \A i \in 1..Len(parts) :
                     OrderedRule(parts[i], FALSE) \/ Strip(parts[i].text) = <<>>
              THEN report'.final_analysis = report.final_analysis
              ELSE \A i \in 1..Len(parts) :
                     IsWrapper(parts[i]) =>
                        ~Contains(report'.final_analysis[1], Strip(parts[i].text))
           /\ (CandidatesOf(r) # <<>> /\ r.usage_metadata # None) =>
                 /\ report'.thinking_tokens = r.usage_metadata[1].thoughts_token_count
                 /\ report'.output_tokens = r.usage_metadata[1].candidates_token_count
                 /\ report'.total_tokens = r.usage_metadata[1].total_token_count

C18_NestedThoughtAndUsage == [][C18_Step]_vars

\* a structure nested beyond the limit: three texts are found, the fourth
\* and the wrapper's text are not; the usage was copied
C18_Witness ==
    /\ updates = 1
    /\ response = Some(Single(<<Plain(Part(<<"wrap">>, NodeMarker(Nest3))),
                               Plain(DonePart)>>, Usage15))
    /\ report.thinking_summary = <<<<"t0">>, <<"t1">>, <<"t2">>>>
    /\ report.final_analysis = Some(<<"Done">>)
    /\ report.total_tokens = Some(15)


(***************************************************************************)
(* Vocabulary of the tool claims: what one invocation added to the calls   *)
(* made of the command log and of the observer.                             *)
(***************************************************************************)

\* the step is one tool invocation, however it ended
Invoked == invocations' = invocations + 1

\* the calls the step made, in order
Added == SubSeq(tool_trace', Len(tool_trace) + 1, Len(tool_trace'))

\* the positions in Added of the log entries
LogEntries == {i \in DOMAIN Added : Added[i].call = "log_command"}

\* the positions in Added of the events the observer received with the
\* given phase (None: an event that carries no phase)
EventsOfPhase(phase) ==
    {i \in DOMAIN Added :
        Added[i].call = "on_command" /\ Added[i].payload.phase = phase}

\* the positions in Added of the observer's completion events: every event
\* that is not a start event
CompletionEvents ==
    {i \in DOMAIN Added :
        Added[i].call = "on_command" /\ Added[i].payload.phase # Some("start")}

\* the command log only grows at its end
AppendOnly ==
    /\ Len(report'.commands) >= Len(report.commands)
    /\ SubSeq(report'.commands, 1, Len(report.commands)) = report.commands

\* C19: every tool invocation, whether it succeeds, fails, times out or is
\* rejected, adds exactly one record to the command log, which is
\* append-only, makes exactly one log entry and, with an observer, sends it
\* exactly one completion event, the log entry before the event.
C19_Step ==
    /\ AppendOnly
    /\ Invoked =>
          /\ Len(report'.commands) = Len(report.commands) + 1
          /\ Cardinality(LogEntries) = 1
          /\ on_command =>
                /\ Cardinality(CompletionEvents) = 1
                /\ \A i \in LogEntries : \A j \in CompletionEvents :
                      i < j /\ Added[i].payload = Added[j].payload

C19_EveryInvocationReportedOnce == [][C19_Step]_vars

\* the invocation did its work to the end: it was not rejected on its
\* arguments or its state, and it reported its completion
Completed == Invoked /\ LogEntries # {}

\* the positions in Added of the observer's start events
StartEvents == EventsOfPhase(Some("start"))

\* C20: with an observer, every tool invocation that completes opens with
\* an event of phase start, and each completion it reports to the observer
\* is an event of phase end that carries the event_id of a start event sent
\* before it in the same invocation; an event_id is carried by one start
\* event only, and by no event of an earlier invocation.  (An invocation
\* that runs several commands may send several such pairs.)
C20_Step ==
    (Completed /\ on_command) =>
        /\ 1 \in StartEvents
        /\ \A j \in CompletionEvents :
              /\ Added[j].payload.phase = Some("end")
              /\ Added[j].payload.event_id # None
              /\ \E i \in StartEvents :
                    /\ i < j
                    /\ Added[i].payload.event_id = Added[j].payload.event_id
        /\ \A i \in StartEvents :
              /\ \A k \in StartEvents :
                    Added[i].payload.event_id = Added[k].payload.event_id
                        => i = k
              /\ \A k \in DOMAIN tool_trace :
                    tool_trace[k].payload.event_id # Added[i].payload.event_id

C20_StartAndEndEvents == [][C20_Step]_vars

\* the step is one invocation of the given tool
InvocationOf(tool) == Invoked /\ tool_call'.tool = tool

\* the positions in Added of the payloads delivered to the observer
Delivered == {i \in DOMAIN Added : Added[i].call = "on_command"}

\* the first payload the step delivered to the observer
FirstDelivered ==
    Added[CHOOSE i \in Delivered : \A j \in Delivered : i <= j].payload

\* C21: when the system command tool runs a command that exits with 0 and
\* an observer is supplied, the first payload delivered to the observer has
\* the tool's name, the command, the command's standard output (surrounding
\* whitespace aside) and success = true.
C21_Step ==
    (/\ InvocationOf("build_system_command_tool")
     /\ tool_call'.args.outcome = "ok"
     /\ on_command)
    => /\ Delivered # {}
       /\ FirstDelivered.tool_name = "build_system_command_tool"
       /\ FirstDelivered.command_executed = tool_call'.args.command
       /\ FirstDelivered.stdout = Strip(SystemOutput)
       /\ FirstDelivered.success = Some(TRUE)

C21_FirstPayloadIsTheResult == [][C21_Step]_vars

\* the invocation was refused on its arguments, before any command ran
RejectedOnArguments ==
    tool_result'.kind = "raised" /\ tool_result'.error = "ValueError"

\* the command the invocation ran failed: it exited non-zero, raised, or
\* outlived its timeout
CommandFailed ==
    \/ /\ tool_call'.tool = "build_system_command_tool"
       /\ tool_call'.args.outcome # "ok"
    \/ /\ tool_call'.tool = "searchsploit_lookup"
       /\ tool_call'.args.action \in {"search", "mirror"}
       /\ tool_call'.args.has_arg
       /\ tool_call'.args.run # "ok"
    \/ /\ tool_call'.tool = "python_code_executor"
       /\ tool_call'.args.code # "blank"
       /\ \/ tool_call'.args.requirements = "fail"
          \/ tool_call'.args.code = "sys.exit()"
          \/ /\ tool_call'.args.code = "x"
             /\ LET sid == IF tool_call'.args.session_id = None
                           THEN "default"
                           ELSE tool_call'.args.session_id[1]
                IN  \/ tool_call'.args.reset_session
                    \/ sessions[sid] = None
                    \/ "x" \notin sessions[sid][1].globals

\* C22: an invocation of the system command tool, the python executor or
\* the searchsploit tool never raises to the caller unless it was refused on
\* its arguments, and when its command exits non-zero, raises or outlives
\* its timeout it returns a result with success = false and logs a record
\* with success = false.
C22_Step ==
    (/\ Invoked
     /\ tool_call'.tool \in {"build_system_command_tool",
                             "python_code_executor", "searchsploit_lookup"})
    => /\ tool_result'.kind = "raised" => RejectedOnArguments
       /\ (CommandFailed /\ ~RejectedOnArguments) =>
             /\ tool_result'.kind = "returned"
             /\ ~tool_result'.success
             /\ \E i \in LogEntries : Added[i].payload.success = Some(FALSE)

C22_FailuresAreReturned == [][C22_Step]_vars

\* the step is a start_listener call with the given action that got past
\* the argument and registry checks
ListenerAction(action) ==
    /\ InvocationOf("start_listener")
    /\ tool_call'.args.action = action
    /\ tool_result'.kind = "returned"

\* the session the registry held for the call's port before the call
SessionBefore == listeners[tool_call'.args.port][1]

\* C23: a listener read for which the caller did not explicitly request
\* draining returns the buffered output and leaves the registry, and so the
\* stdout and stderr buffers, as they were: the next read finds the same
\* output again.
C23_Step ==
    (ListenerAction("read") /\ tool_call'.args.drain_output # Some(TRUE))
    => /\ tool_result'.stdout = SessionBefore.stdout
       /\ listeners' = listeners

C23_ReadKeepsBuffers == [][C23_Step]_vars

\* C24: a listener send on a port whose tracked process has exited raises
\* the process-not-running error, writes nothing to the process, makes no
\* log entry and sends no event, and leaves the command log and the
\* registry with its buffers as they were; a send that succeeds found the
\* process alive and wrote to it once.
C24_Step ==
    /\ (/\ InvocationOf("start_listener")
        /\ tool_call'.args.action = "send"
        /\ listeners[tool_call'.args.port] # None
        /\ ~Running(SessionBefore))
       => /\ tool_result' = ToolRaised("RuntimeError")
          /\ Added = <<>>
          /\ report' = report
          /\ listeners' = listeners
    /\ (ListenerAction("send") /\ tool_result'.success)
       => /\ SessionBefore.returncode = None
          /\ listeners'[tool_call'.args.port][1].written
                = SessionBefore.written + 1

C24_SendNeedsLiveProcess == [][C24_Step]_vars

\* a send was refused because the tracked process had exited
C24_Witness ==
    /\ tool_call.kind = "call"
    /\ tool_call.tool = "start_listener"
    /\ tool_call.args.action = "send"
    /\ tool_result = ToolRaised("RuntimeError")
    /\ listeners[tool_call.args.port] # None
    /\ listeners[tool_call.args.port][1].returncode = Some(0)
    /\ report.commands # <<>>

RunEnds(kind) == pc # "idle" /\ pc' = "idle" /\ result'.kind = kind

C26_Step ==
    /\ RunEnds("returned") => incomplete_response_notes' = <<>>
    /\ RunEnds("raised") =>
          incomplete_response_notes' = incomplete_response_notes

C26_NotesClearedOnReturnOnly == [][C26_Step]_vars

\* a run returned a response after an attempt on an empty stream had
\* recorded a note, and the list is empty
C26_Witness ==
    /\ result.kind = "returned"
    /\ \E i \in 1..Len(calls) : ZeroChunks(calls[i].outcome)
    /\ incomplete_response_notes = <<>>

\* a run ended by raising and the notes of its earlier attempts are held
C26_RaisedKeepsNotes ==
    /\ result.kind = "raised"
    /\ \E i \in 1..Len(calls) : ZeroChunks(calls[i].outcome)
    /\ incomplete_response_notes # <<>>

(***************************************************************************)
(* C27: the CONTEXT block of an attempt names every model on which an       *)
(* earlier attempt of the run was made, and holds a line for every command  *)
(* record of the command log with its success flag, for every thinking-log  *)
(* entry, for the final answer so far when there is one, for every          *)
(* rate-limit note and for every incomplete-response note held.             *)
(***************************************************************************)
\* the lines of the CONTEXT block of the prompt
BlockLines ==
    ContextLines(tried_models, report, rate_limit_notes,
                 incomplete_response_notes)

\* the models on which an attempt was made before the one being prepared
EarlierModels ==
    {tried_models[i] : i \in 1..(Len(tried_models) - 1)}
        \cup (IF attempt > 0 THEN {tried_models[Len(tried_models)]} ELSE {})

Listed(line) == line \in SeqToSet(BlockLines)

Named(model_name) ==
    \E i \in 1..Len(BlockLines) : Contains(BlockLines[i], <<model_name>>)

\* at least as many lines equal to `line` as the sequence q holds `item`
AsOftenAs(line, q, item) ==
    Cardinality({i \in 1..Len(BlockLines) : BlockLines[i] = line})
        >= Cardinality({i \in 1..Len(q) : q[i] = item})

C27_ContextListsEverything ==
    (pc = "prompted" /\ HasContextBlock(prompt)) =>
        /\ prompt = build_prompt \o <<"\n\nCONTEXT:\n">>
                        \o Join(<<"\n">>, BlockLines)
        /\ \A model_name \in EarlierModels : Named(model_name)
        /\ \A i \in 1..Len(report.commands) :
              LET cmd == report.commands[i]
                  line == <<"-">> \o cmd.command
                              \o <<"(success=", ToString(cmd.success), ")">>
              IN AsOftenAs(line, report.commands, cmd)
        /\ \A i \in 1..Len(report.thinking_summary) :
              Listed(<<"-">> \o report.thinking_summary[i])
        /\ report.final_analysis # None => Listed(report.final_analysis[1])
        /\ \A i \in 1..Len(rate_limit_notes) :
              Listed(<<"-">> \o rate_limit_notes[i])
        /\ \A i \in 1..Len(incomplete_response_notes) :
              Listed(<<"-">> \o incomplete_response_notes[i])

\* the second attempt on the second model, with two command records of
\* which one failed, a thinking log, a final answer and notes of both kinds
C27_Witness ==
    /\ pc = "prompted"
    /\ HasContextBlock(prompt)
    /\ Len(tried_models) = 2
    /\ attempt = 1
    /\ Len(report.commands) = 2
    /\ \E i \in 1..2 : ~report.commands[i].success
    /\ Len(report.thinking_summary) = 2
    /\ report.final_analysis # None
    /\ rate_limit_notes # <<>>
    /\ Len(incomplete_response_notes) > 1

\* the models line alone names every model on which an earlier attempt was
\* made
C27_ModelsLineNamesAll ==
    (pc = "prompted" /\ HasContextBlock(prompt)) =>
        \A model_name \in EarlierModels :
            \E i \in 1..Len(BlockLines) :
                /\ Contains(BlockLines[i], <<"Previously attempted models:">>)
                /\ Contains(BlockLines[i], <<model_name>>)

(***************************************************************************)
(* C28: the classification used for live display (_is_thought_part) and    *)
(* the one used for final-analysis extraction (_resolve_thought_source)    *)
(* give the same verdict for every part: for every combination of marker   *)
(* (null, true, false, a number, another object), role and kind, and for   *)
(* every part the report or the display has classified.                    *)
(***************************************************************************)
SameVerdict(part) == _is_thought_part(part) = _resolve_thought_source(part)[1]

C28_SameVerdict ==
    /\ \A part \in ClassifiedParts : SameVerdict(part)
    /\ \A i \in 1..Len(resolved) :
          resolved[i].is_thought = _is_thought_part(resolved[i].part)
    /\ \A i \in 1..Len(labels) :
          (labels[i].label = "thought")
              = _resolve_thought_source(labels[i].part)[1]

\* one part, with an object for its marker and a role that is not thought,
\* was shown as a thought and stored as a thought
C28_Witness ==
    \E i \in 1..Len(resolved), j \in 1..Len(labels) :
        /\ resolved[i].part = labels[j].part
        /\ resolved[i].part.thought.tag = "node"
        /\ resolved[i].part.role = Some(<<"model">>)
        /\ resolved[i].is_thought
        /\ labels[j].label = "thought"

(***************************************************************************)
(* C29: while streaming, every part with non-empty text of chunk k is      *)
(* forwarded to the display, labelled thought or output, before chunk k+1  *)
(* is read and in the order the parts arrive; the aggregation buffers are  *)
(* only appended to while the stream is being consumed, and the final      *)
(* response is built only after the stream is exhausted.                   *)
(***************************************************************************)
\* the parts of a chunk in the order they arrive: candidate by candidate
RECURSIVE ArrivingParts(_)
ArrivingParts(candidates) ==
    IF candidates = <<>> THEN <<>>
    ELSE (IF Head(candidates).content = None THEN <<>>
          ELSE Head(candidates).content[1].parts)
         \o ArrivingParts(Tail(candidates))

PartsWithText(chunk) ==
    SelectSeq(ArrivingParts(IF chunk.candidates = None THEN <<>>
                            ELSE chunk.candidates[1]),
              LAMBDA part : part.text # <<>>)

RECURSIVE PartsWithTextOf(_)
PartsWithTextOf(stream) ==
    IF stream = <<>> THEN <<>>
    ELSE PartsWithTextOf(SubSeq(stream, 1, Len(stream) - 1))
             \o PartsWithText(stream[Len(stream)])

IsPrefix(q, r) == Len(q) <= Len(r) /\ SubSeq(r, 1, Len(q)) = q

\* every buffer holds what it held, followed by what was appended
BuffersAppendedTo ==
    \A idx \in DOMAIN aggregation.aggregated_parts :
        /\ idx \in DOMAIN aggregation'.aggregated_parts
        /\ IsPrefix(aggregation.aggregated_parts[idx],
                    aggregation'.aggregated_parts[idx])

C29_Step ==
    \* a chunk is read: its parts are forwarded in that step, after those of
    \* the chunks before it
    /\ (status_console /\ Len(chunks') = Len(chunks) + 1) =>
          LET forwarded == SubSeq(emitted', Len(emitted) + 1, Len(emitted'))
          IN /\ IsPrefix(emitted, emitted')
             /\ [i \in 1..Len(forwarded) |-> forwarded[i].part]
                    = PartsWithText(chunks'[Len(chunks')])
             /\ \A i \in 1..Len(forwarded) :
                    forwarded[i].label \in {"thought", "output"}
    /\ status_console =>
          [i \in 1..Len(emitted') |-> emitted'[i].part] = PartsWithTextOf(chunks')
    \* the buffers change only when a chunk is read, and only by appending
    /\ aggregation' # aggregation =>
          /\ stream_pc = "loop" /\ stream_pc' = "loop"
          /\ Len(chunks') = Len(chunks) + 1
          /\ BuffersAppendedTo
    \* the response is built when the stream has ended, from the buffers as
    \* they then are, and nothing is read or appended afterwards
    /\ returned' # returned =>
          /\ stream_pc = "loop" /\ stream_pc' = "done"
          /\ chunks' = chunks /\ aggregation' = aggregation
    /\ stream_pc = "done" =>
          /\ chunks' = chunks /\ aggregation' = aggregation
          /\ emitted' = emitted /\ returned' = returned

C29_ForwardedBeforeNextChunk == [][C29_Step]_vars

\* three chunks were read by an agent with a console, a part without text
\* was skipped, the parts of two of the chunks were forwarded in order, and
\* the response was built after the stream ended
C29_Witness ==
    /\ status_console
    /\ stream_pc = "done"
    /\ returned # None
    /\ Len(chunks) = 3
    /\ chunks[1].candidates = Some(<<Candidate(Some(1), ContentBC)>>)
    /\ chunks[2].candidates # None
    /\ PartEmpty \in SeqToSet(ArrivingParts(chunks[2].candidates[1]))
    /\ [i \in 1..Len(emitted) |-> emitted[i].part] = <<PartB, PartC, PartB>>
    /\ emitted[1].label = "thought"
    /\ emitted[2].label = "output"

(***************************************************************************)
(* C30: a listener status action never changes listener state: the         *)
(* registry with the port's entry, its process and its stdout and stderr   *)
(* buffers is the same before and after, so every other listener action    *)
(* returns after the status query what it would have returned before it,   *)
(* and leaves the registry it would have left.                             *)
(***************************************************************************)
\* what a listener call returns and the registry it leaves, in this state
ListenerAnswers ==
    [c \in ListenerCalls |->
        LET done == listener_outcome(ToolCtx, c.action, c.port, c.has_input,
                                     ArgOrDefault(c.drain_output, TRUE),
                                     c.nc_found)
        IN [res |-> done.res, listeners |-> done.listeners]]

C30_Step ==
    (/\ InvocationOf("start_listener")
     /\ tool_call'.args.action = "status")
    => /\ listeners' = listeners
       /\ ListenerAnswers' = ListenerAnswers

C30_StatusNeverMutates == [][C30_Step]_vars

\* a status query was answered for a listener whose process has exited and
\* whose buffer holds output; the entry and the output are still there
C30_Witness ==
    /\ tool_call.kind = "call"
    /\ tool_call.tool = "start_listener"
    /\ tool_call.args.action = "status"
    /\ tool_result.kind = "returned"
    /\ listeners[tool_call.args.port] # None
    /\ listeners[tool_call.args.port][1].returncode = Some(0)
    /\ listeners[tool_call.args.port][1].stdout # <<>>

(***************************************************************************)
(* C31: under every interleaving of a listener's reader threads with read  *)
(* and stop calls, a buffer append and a drain never run at the same time, *)
(* no line is returned by two draining calls, and no line is lost: once    *)
(* the stop call has returned, every line a reader thread has read from    *)
(* the process was returned by a draining read or by the stop.             *)
(***************************************************************************)
\* the threads that are inside a `with lock:` block
InsideLock ==
    {key \in Keys : reader_pc[key] = "append"}
        \cup (IF call # NoCall /\ call.pc = "drain" THEN {"tool"} ELSE {})

MutuallyExclusive ==
    /\ Cardinality(InsideLock) <= 1
    /\ InsideLock # {} => lock # None /\ lock[1] \in InsideLock

\* what the draining calls returned under a key, call after call
DrainedLines(key) ==
    Returned(SelectSeq(returns, LAMBDA ret : ret.drained), key)

ReturnedOnce ==
    \A key \in Keys : NoDuplicates(DrainedLines(key))

\* the lines a reader thread has taken from its pipe so far
LinesRead(key) ==
    SeqToSet(line_read[key]) \cup SeqToSet(buffer[key])
        \cup (IF call = NoCall THEN {} ELSE SeqToSet(call.content[key]))
        \cup SeqToSet(Returned(returns, key))

StopReturned ==
    /\ call = NoCall
    /\ returns # <<>>
    /\ returns[Len(returns)].action = "stop"

NoLineLost ==
    StopReturned =>
        \A key \in Keys : LinesRead(key) \subseteq SeqToSet(DrainedLines(key))

C31_DrainsExclusiveAndLossless ==
    MutuallyExclusive /\ ReturnedOnce /\ NoLineLost

\* the lock does its work: appends and drains exclude one another, and no
\* line is returned by two draining calls
C31_ExclusiveAndReturnedOnce == MutuallyExclusive /\ ReturnedOnce

\* a line was drained by a read and another by the stop
C31_Drained ==
    /\ StopReturned
    /\ Len(returns) = 2
    /\ returns[1].drained
    /\ returns[1].stdout # <<>>
    /\ returns[2].stdout # <<>>

\* the session a call of the python executor names (line 762)
SessionOf(c) == IF c.session_id = None THEN "default" ELSE c.session_id[1]

\* the call's code was executed: it was not refused, its requirements were
\* installed and the alarm could be set
Ran(c) ==
    /\ c.code \in {"x = 1", "x"}
    /\ c.requirements = "none"
    /\ c.main_thread

\* the name x is defined in the namespace kept under a session id
Visible(sid) == sessions[sid] # None /\ "x" \in sessions[sid][1].globals

\* the number of history entries kept under a session id
HistoryOf(sid) == IF sessions[sid] = None THEN 0 ELSE sessions[sid][1].history

\* C32: the python executor keeps one namespace per session id: a name a
\* call defines is in the namespace of the call's session id afterwards and
\* stays there over later calls until a reset of that id, a call that reads
\* the name succeeds exactly when the namespace of its own session id holds
\* it, whatever the other sessions hold, a call with reset_session = true
\* that is not refused runs on an empty namespace and an empty history for
\* its id, and every call leaves the sessions of all other ids unchanged.
C32_Step ==
    /\ InvocationOf("python_code_executor") =>
          LET c == tool_call'.args
          IN  \A sid \in {id \in SessionIds : id = SessionOf(c)} :
              /\ \A other \in SessionIds \ {sid} :
                    sessions'[other] = sessions[other]
              /\ (Ran(c) /\ c.code = "x = 1") => Visible(sid)'
              /\ (Visible(sid) /\ ~c.reset_session) => Visible(sid)'
              /\ (Ran(c) /\ c.code = "x") =>
                    (tool_result'.success
                        <=> (Visible(sid) /\ ~c.reset_session))
              /\ (c.reset_session /\ c.code # "blank") =>
                    /\ HistoryOf(sid)' = IF Ran(c) THEN 1 ELSE 0
                    /\ Visible(sid)' <=> (Ran(c) /\ c.code = "x = 1")
              /\ (~c.reset_session /\ Ran(c)) =>
                    HistoryOf(sid)' = HistoryOf(sid) + 1
    /\ (Invoked /\ tool_call'.tool # "python_code_executor") =>
          sessions' = sessions

C32_OneNamespacePerSession == [][C32_Step]_vars

\* both sessions exist, the name is defined in one and not in the other, and
\* the last call read the name under the other id and failed
C32_Witness ==
    /\ Visible("default")
    /\ sessions["s2"] # None
    /\ ~Visible("s2")
    /\ tool_call.kind = "call"
    /\ tool_call.tool = "python_code_executor"
    /\ tool_call.args.code = "x"
    /\ tool_call.args.session_id = Some("s2")
    /\ ~tool_call.args.reset_session
    /\ tool_result.kind = "returned"
    /\ ~tool_result.success

\* the last call reset the default session and read the name: the session
\* holds no name and a single history entry, the other session holds its
\* name still
C32_ResetWitness ==
    /\ Visible("s2")
    /\ sessions["default"] # None
    /\ ~Visible("default")
    /\ HistoryOf("default") = 1
    /\ tool_call.kind = "call"
    /\ tool_call.tool = "python_code_executor"
    /\ tool_call.args.code = "x"
    /\ tool_call.args.session_id = None
    /\ tool_call.args.reset_session

\* C33: a run that ends by raising leaves report.end_time null when it was
\* null at the start of the run, and a run that returns a response leaves it
\* set: from a null end_time every step of run that does not return leaves
\* end_time null, the attempts classified incomplete or rate limited by
\* their text clearing the time update_from_response had set.
C33_Step ==
    /\ RunEnds("returned") => report'.end_time # None
    /\ (pc # "idle" /\ report.end_time = None /\ ~RunEnds("returned")) =>
          report'.end_time = None

C33_EndTimeNullUnlessReturned == [][C33_Step]_vars

\* the last attempt of the run raised out of update_from_response
UpdateRaised ==
    /\ result.kind = "raised"
    /\ ~result.exhausted
    /\ result.value.cls = NoneSubscriptError.cls
    /\ result.value.str = NoneSubscriptError.str

\* the same without the runs that end in update_from_response: the error
\* raised by response.candidates[0] leaves the time update_from_response set
C33_ExceptUpdateRaising ==
    [][(RunEnds("raised") /\ UpdateRaised') \/ C33_Step]_vars

\* a run that started with a null end_time ended by raising after an
\* incomplete attempt had set and cleared the time, and end_time is null
C33_Cleared ==
    /\ run_no = 1
    /\ result.kind = "raised"
    /\ Len(calls) >= 2
    /\ calls[1].outcome = "thoughts_only"
    /\ report.end_time = None

\* the backend calls of the run issued at one entry of models_order
CallsAt(p) == Cardinality({i \in 1..Len(calls) : calls[i].pos = p})

\* the backend calls of the run issued to one model name
CallsTo(m) == Cardinality({i \in 1..Len(calls) : calls[i].model = m})

\* what is left of the run: four units for each entry of models_order not
\* yet taken, and inside the while loop three less the attempts made
Remaining ==
    4 * (Len(models_order) - Len(tried_models))
    + (IF pc = "while" THEN 3 - attempt ELSE 0)

\* the run issues at most 2 x len(models_order) backend calls, at most 2 of
\* them at any one entry of models_order
CallsBounded ==
    /\ Len(calls) <= 2 * Len(models_order)
    /\ \A p \in 1..Len(models_order) : CallsAt(p) <= INCOMPLETE_RESPONSE_RETRIES
    /\ pc # "idle" => Remaining >= 0

\* every step of a run in progress ends the run or lowers what is left of it
Descends == pc # "idle" => (pc' = "idle" \/ Remaining' < Remaining)

\* C34 as stated: at most 2 x len(models_order) backend calls, and no model
\* name receives more than 2 calls in a run.
C34_NoModelCalledThrice ==
    /\ Len(calls) <= 2 * Len(models_order)
    /\ \A m \in ModelNames : CallsTo(m) <= 2

\* C34, amended: every run terminates provided each backend call returns or
\* raises: each step of the run ends it or lowers a non-negative measure, it
\* issues at most 2 x len(models_order) backend calls, and no entry of
\* models_order receives more than 2 calls whatever mix of incomplete
\* responses, empty streams and rate limits it produces; a model name listed
\* more than once receives up to 2 calls at each of its entries.
C34_RunTerminatesWithinBound == []CallsBounded /\ [][Descends]_vars

\* a run ended after two calls at each of two entries, mixing empty streams
\* and responses without final analysis
C34_Witness ==
    /\ pc = "idle"
    /\ result.kind = "raised"
    /\ Len(calls) = 4
    /\ CallsAt(1) = 2
    /\ CallsAt(2) = 2
    /\ calls[1].outcome = "empty"
    /\ calls[2].outcome = "thoughts_only"

\* the call succeeded with a response that says a rate-limit keyword and
\* carries no final-answer text
KeywordWithoutFinalText(name) ==
    /\ Succeeded(name)
    /\ SaysRateLimit(StreamParts(StreamTable[name]))
    /\ ~HasFinalText(StreamParts(StreamTable[name]))

\* the step is a backend call
Called1 == Len(calls') = Len(calls) + 1

\* C35: a successful response that both says a rate-limit keyword and has
\* no final-answer text is handled as rate limited and not as incomplete:
\* the attempt leaves a rate-limit note naming the model and records no
\* incomplete-response note, the model is not retried, and the controller advances to the next entry
\* of the list after that attempt.
C35_Step ==
    (Called1 /\ KeywordWithoutFinalText(calls'[Len(calls')].outcome)) =>
        /\ incomplete_response_notes' = incomplete_response_notes
        /\ \E n \in 1..Len(rate_limit_notes') :
              Contains(rate_limit_notes'[n], <<calls'[Len(calls')].model>>)
        /\ pc' = "for"
        /\ report'.end_time = None

AdvancesAfterKeyword ==
    \A i \in 1..Len(calls) :
        KeywordWithoutFinalText(calls[i].outcome) => AdvancedAfter(i)

C35_KeywordBeatsIncomplete == []AdvancesAfterKeyword /\ [][C35_Step]_vars

\* a first attempt answered with a rate-limit keyword in a thought and no
\* final-answer text; the next call went to the next entry
C35_Witness ==
    /\ Len(calls) >= 2
    /\ calls[1].outcome = "quota_thought"
    /\ calls[1].attempt = 1
    /\ calls[2].pos = 2
    /\ report.final_analysis = None

\* the three token counts of a report
Tokens(rep) == <<rep.thinking_tokens, rep.output_tokens, rep.total_tokens>>

\* update_from_response found no text outside the thoughts of the first
\* candidate
NoOtherText(flags) ==
    \A i \in 1..Len(flags) :
        flags[i].is_thought \/ Strip(flags[i].part.text) = <<>>

\* C36: update_from_response only accumulates: the thinking_summary it
\* leaves starts with the entries held before, in their order; it leaves
\* final_analysis unchanged when the first candidate of the response has no
\* non-thought text and the three token counts unchanged when the response
\* carries no usage; so that final_analysis and the token counts are those
\* of the latest response that supplied them: a changed final_analysis
\* holds text of a non-thought part of this response, and changed token
\* counts are the counts of this response's usage.
C36_Step ==
    UpdateReport =>
        LET r == response'[1]
            flags == resolved'
        IN  /\ IsPrefix(report.thinking_summary, report'.thinking_summary)
            /\ NoOtherText(flags) =>
                  report'.final_analysis = report.final_analysis
            /\ r.usage_metadata = None => Tokens(report)' = Tokens(report)
            /\ report'.final_analysis # report.final_analysis =>
                  \E i \in 1..Len(flags) :
                      /\ ~flags[i].is_thought
                      /\ Strip(flags[i].part.text) # <<>>
                      /\ Contains(report'.final_analysis[1],
                                  Strip(flags[i].part.text))
            /\ Tokens(report)' # Tokens(report) =>
                  /\ r.usage_metadata # None
                  /\ Tokens(report)' =
                        <<r.usage_metadata[1].thoughts_token_count,
                          r.usage_metadata[1].candidates_token_count,
                          r.usage_metadata[1].total_token_count>>

C36_OnlyAccumulates == [][C36_Step]_vars

\* a response of thoughts only and without usage was handled after one that
\* supplied a final answer and usage: the answer and the counts of the
\* earlier response are held, the thoughts of both in order
C36_Witness ==
    /\ updates = 2
    /\ response = Some(Single(<<Plain(ThoughtPart), Plain(BlankPart)>>, None))
    /\ report.final_analysis # None
    /\ report.total_tokens = Some(15)
    /\ Len(report.thinking_summary) >= 2

(***************************************************************************)
(* The tools over the attempts of a run: run builds the four tools anew at *)
(* every attempt (agent.py lines 321-350), each build starting from an     *)
(* empty registry of listeners and of python sessions, while the report    *)
(* and its command log are kept.                                            *)
(***************************************************************************)
\* run, lines 321-350: the tools of the next attempt
BuildTools ==
    /\ listeners' = [port \in Ports |-> None]
    /\ sessions' = [sid \in SessionIds |-> None]
    /\ UNCHANGED <<on_command, tool_trace, uuids, tool_result, tool_call,
                   invocations, thread_vars, tui_vars, agent_vars, stream_vars,
                   report_vars>>

AttemptNext == start_listener \/ ProcessExits \/ _reader \/ BuildTools

AttemptSpec == ToolInit /\ [][AttemptNext]_vars

\* the CONTEXT block reports the port as RUNNING
ReportedRunning(port) ==
    ListenerInfo(ListenerRecords(report.commands), ToString(port)).running

\* the call is a status, read or stop action, or a send action with input,
\* on a port
OnTrackedPort(c) ==
    /\ c.port \in Ports
    /\ \/ c.action \in {"status", "read", "stop"}
       \/ c.action = "send" /\ c.has_input

\* C37: a listener started in one attempt stays reachable in the later
\* attempts of the run: while the CONTEXT block reports its port as RUNNING,
\* a status, read, send or stop action on that port through the listener
\* tool of the current attempt finds the session and does not fail with "No
\* listener tracked for port".
C37_Step ==
    (/\ InvocationOf("start_listener")
     /\ OnTrackedPort(tool_call'.args)
     /\ \E port \in Ports : port = tool_call'.args.port /\ ReportedRunning(port))
    => /\ \E port \in Ports : port = tool_call'.args.port /\ listeners[port] # None
       /\ ~(tool_result'.kind = "raised" /\ tool_result'.error = "ValueError")

C37_ListenerReachableAcrossAttempts == [][C37_Step]_vars

\* a call on a port reported as RUNNING was refused as not tracked
C37_Refused ==
    /\ tool_call.kind = "call"
    /\ tool_call.tool = "start_listener"
    /\ tool_call.args.action = "status"
    /\ ReportedRunning(tool_call.args.port)
    /\ listeners[tool_call.args.port] = None
    /\ tool_result.kind = "raised"

\* the port holds a tracked process that is still running
TrackedLive(port) ==
    listeners[port] # None /\ listeners[port][1].returncode = None

\* C38: within one listener tool there is at most one live tracked process
\* per port: a start action on a port whose tracked process is still
\* running returns success = false, spawns no process (no start event, no
\* record) and leaves the registry unchanged, so a process is spawned only
\* on a port without a live tracked process; a stop action on a tracked
\* port terminates the process and removes the port from the registry; and
\* on a port that is not in the registry status, read, send and stop fail,
\* the port entering the registry again only by a successful start.
C38_Step ==
    /\ InvocationOf("start_listener") =>
          LET c == tool_call'.args IN
          \A port \in {q \in Ports : q = c.port} :
              /\ (c.action = "start" /\ TrackedLive(port)) =>
                    /\ tool_result'.kind = "returned"
                    /\ ~tool_result'.success
                    /\ listeners' = listeners
                    /\ Added = <<>>
              /\ (c.action = "start" /\ listeners'[port] # listeners[port]) =>
                    /\ ~TrackedLive(port)
                    /\ tool_result'.success
                    /\ listeners'[port] = Some(NewListener)
              /\ (c.action = "stop" /\ listeners[port] # None) =>
                    /\ tool_result'.kind = "returned"
                    /\ tool_result'.success
                    /\ listeners'[port] = None
                    /\ TrackedLive(port) =>
                          report'.commands[Len(report'.commands)].return_code
                              = Some(0 - 15)
              /\ (c.action \in {"status", "read", "send", "stop"}
                    /\ listeners[port] = None) =>
                    /\ tool_result'.kind = "raised"
                    /\ listeners' = listeners
                    /\ Added = <<>>
    /\ \A port \in Ports :
          (listeners[port] = None /\ listeners'[port] # None) =>
              /\ InvocationOf("start_listener")
              /\ tool_call'.args.action = "start"
              /\ tool_call'.args.port = port

C38_OneLiveProcessPerPort == [][C38_Step]_vars

\* a start on a port whose process was running was refused, the registry
\* still holding the running process
C38_Witness ==
    /\ tool_call.kind = "call"
    /\ tool_call.tool = "start_listener"
    /\ tool_call.args.action = "start"
    /\ tool_call.args.port \in Ports
    /\ tool_result.kind = "returned"
    /\ ~tool_result.success
    /\ tool_result.error = "listener already running"
    /\ TrackedLive(tool_call.args.port)

\* a status query after a stop was refused: the port is not in the registry
C38_StoppedWitness ==
    /\ invocations = 3
    /\ tool_call.kind = "call"
    /\ tool_call.tool = "start_listener"
    /\ tool_call.args.action = "status"
    /\ tool_result.kind = "raised"
    /\ \E i \in 1..Len(report.commands) :
          Contains(report.commands[i].command, <<"action=", "stop">>)

(***************************************************************************)
(* BounterTUI: the scan commands (tui.py lines 257-333).  The handlers run *)
(* on the event loop, one at a time and without suspension; a scan task    *)
(* runs _execute_scan on a worker thread and resumes on the loop when the  *)
(* thread has returned or raised.                                          *)
(***************************************************************************)
MaxScans == 3

\* the commands an operator submits: /run with or without a target,
\* guidance text, /guidance, /hil on and /hil off
Targets == {"t1", "t2"}

\* the scan tasks that have not ended
InProgress == {i \in 1..Len(tasks) : tasks[i].state # "ended"}

TuiUnchanged == UNCHANGED <<agent_vars, stream_vars, report_vars, tool_vars>>

\* _start_scan creating the task before it sets the flag
_start_scan_task_first(target) ==
    IF scanning
    THEN /\ notice' = "already running"
         /\ UNCHANGED <<scanning, tasks>>
    ELSE /\ tasks' = Append(tasks, [state |-> "created", target |-> target,
                                    flag |-> scanning, outcome |-> "none"])
         /\ scanning' = TRUE
         /\ notice' = "starting"

\* _start_scan (lines 303-315): the task is created with the flag as the
\* assignment of line 310 left it
_start_scan(target) ==
    IF scanning
    THEN /\ notice' = "already running"
         /\ UNCHANGED <<scanning, tasks>>
    ELSE /\ scanning' = TRUE
         /\ tasks' = Append(tasks, [state |-> "created", target |-> target,
                                    flag |-> TRUE, outcome |-> "none"])
         /\ notice' = "starting"

\* handle_command("/run ...") and _handle_run (lines 282-301)
_handle_run ==
    /\ Len(tasks) < MaxScans
    /\ \E parts \in {None} \cup {Some(t) : t \in Targets} :
          IF scanning
          THEN /\ notice' = "already running"
               /\ UNCHANGED <<scanning, tasks, _session_target>>
          ELSE IF parts = None
          THEN /\ notice' = "usage"
               /\ UNCHANGED <<scanning, tasks, _session_target>>
          ELSE /\ _session_target' = parts
               /\ _start_scan(parts[1])
    /\ UNCHANGED <<_hil_mode, _awaiting_guidance>>
    /\ TuiUnchanged

\* handle_guidance (lines 257-280)
handle_guidance ==
    /\ Len(tasks) < MaxScans
    /\ IF ~_hil_mode
       THEN /\ notice' = "hil disabled"
            /\ UNCHANGED <<scanning, tasks, _awaiting_guidance>>
       ELSE IF scanning
       THEN /\ notice' = "already running"
            /\ UNCHANGED <<scanning, tasks, _awaiting_guidance>>
       ELSE IF _session_target = None
       THEN /\ notice' = "no scan yet"
            /\ UNCHANGED <<scanning, tasks, _awaiting_guidance>>
       ELSE IF ~_awaiting_guidance
       THEN /\ notice' = "use /guidance"
            /\ UNCHANGED <<scanning, tasks, _awaiting_guidance>>
       ELSE /\ _start_scan(_session_target[1])
            /\ _awaiting_guidance' = FALSE
    /\ UNCHANGED <<_hil_mode, _session_target>>
    /\ TuiUnchanged

\* _toggle_hil (lines 387-396) with a well-formed argument
_toggle_hil ==
    /\ \E enable \in BOOLEAN :
          /\ _hil_mode' = enable
          /\ notice' = IF enable THEN "hil enabled" ELSE "hil off"
    /\ _awaiting_guidance' = FALSE
    /\ UNCHANGED <<scanning, _session_target, tasks>>
    /\ TuiUnchanged

\* _request_guidance (lines 398-412)
_request_guidance ==
    /\ IF ~_hil_mode
       THEN notice' = "hil disabled" /\ UNCHANGED _awaiting_guidance
       ELSE IF scanning
       THEN notice' = "already running" /\ UNCHANGED _awaiting_guidance
       ELSE IF _session_target = None
       THEN notice' = "no scan yet" /\ UNCHANGED _awaiting_guidance
       ELSE IF _awaiting_guidance
       THEN notice' = "already waiting" /\ UNCHANGED _awaiting_guidance
       ELSE notice' = "paused" /\ _awaiting_guidance' = TRUE
    /\ UNCHANGED <<scanning, _hil_mode, _session_target, tasks>>
    /\ TuiUnchanged

\* the event loop runs the task: _run_scan up to the await of
\* asyncio.to_thread (lines 317-321)
TaskStarts ==
    /\ \E i \in 1..Len(tasks) :
          /\ tasks[i].state = "created"
          /\ tasks' = [tasks EXCEPT ![i].state = "running"]
    /\ UNCHANGED <<scanning, _hil_mode, _session_target, _awaiting_guidance,
                   notice>>
    /\ TuiUnchanged

\* _run_scan keeping the flag when the scan raised
_run_scan_keeping_flag(i, outcome) ==
    /\ tasks' = [tasks EXCEPT ![i].state = "ended", ![i].outcome = outcome]
    /\ scanning' = (outcome = "raised" /\ scanning)
    /\ _awaiting_guidance' = IF _hil_mode THEN FALSE ELSE _awaiting_guidance
    /\ notice' = IF outcome = "returned" THEN "reports saved" ELSE "scan failed"

\* _run_scan from the return of the worker thread to its end (lines
\* 321-333): _execute_scan returned and the report was saved, or one of
\* them raised; the finally clause runs in both cases
_run_scan(i, outcome) ==
    /\ tasks' = [tasks EXCEPT ![i].state = "ended", ![i].outcome = outcome]
    /\ scanning' = FALSE
    /\ _awaiting_guidance' = IF _hil_mode THEN FALSE ELSE _awaiting_guidance
    /\ notice' = IF outcome = "returned" THEN "reports saved" ELSE "scan failed"

TaskEnds ==
    /\ \E i \in 1..Len(tasks), outcome \in {"returned", "raised"} :
          /\ tasks[i].state = "running"
          /\ _run_scan(i, outcome)
    /\ UNCHANGED <<_hil_mode, _session_target>>
    /\ TuiUnchanged

TuiInit == ToolInit /\ on_command = FALSE

TuiNext ==
    \/ _handle_run
    \/ handle_guidance
    \/ _toggle_hil
    \/ _request_guidance
    \/ TaskStarts
    \/ TaskEnds

TuiSpec == TuiInit /\ [][TuiNext]_vars

\* a scan task was created in the step
TaskCreated == Len(tasks') = Len(tasks) + 1

\* a scan task ended in the step
TaskEnded ==
    \E i \in 1..Len(tasks) : tasks[i].state # "ended" /\ tasks'[i].state = "ended"

\* at most one scan is in progress, and the flag is true exactly while one is
OneScan ==
    /\ Cardinality(InProgress) <= 1
    /\ scanning <=> InProgress # {}
    /\ \A i \in 1..Len(tasks) : tasks[i].flag

\* C39: in the TUI at most one scan is in progress at any time: a /run
\* command or guidance text submitted while the scanning flag is true starts
\* no scan task, the flag is set before the scan task is created, and it is
\* reset to false when the scan task ends, whether the scan returned or
\* raised.
C39_Step ==
    /\ scanning => ~TaskCreated
    /\ TaskCreated => scanning' /\ tasks'[Len(tasks')].flag
    /\ TaskEnded => ~scanning'

C39_OneScanAtATime == []OneScan /\ [][C39_Step]_vars

\* a scan that raised has ended, the flag is false again, and a second scan
\* was started after it
C39_Witness ==
    /\ Len(tasks) = 2
    /\ tasks[1].state = "ended"
    /\ tasks[1].outcome = "raised"
    /\ tasks[2].state = "running"
    /\ scanning

\* a /run command submitted during a scan was refused
C39_RefusedWitness ==
    /\ scanning
    /\ notice = "already running"
    /\ Len(tasks) = 1
    /\ tasks[1].state = "running"

\* how many items of a sequence satisfy a test
CountOf(q, Test(_)) == Cardinality({i \in 1..Len(q) : Test(q[i])})

\* the final-answer segments a final_analysis was joined from
SegmentsIn(final) ==
    IF final = None THEN 0
    ELSE CountOf(final[1], LAMBDA tok : tok = "\n") + 1

\* the parts classified as thought, or as not thought, that carry text
WithText(flags, thought) ==
    CountOf(flags, LAMBDA f : f.is_thought = thought /\ Strip(f.part.text) # <<>>)

\* the entries update_from_response added for the parts of the first
\* candidate, each part being classified by itself: as many thinking
\* entries as thought parts with text, as many final-answer segments as
\* other parts with text
OncePerPart(flags) ==
    (\A i \in 1..Len(flags) : OwnText(flags[i].part)) =>
        /\ Len(report'.thinking_summary) - Len(report.thinking_summary)
              = WithText(flags, TRUE)
        /\ WithText(flags, FALSE) > 0 =>
              SegmentsIn(report'.final_analysis) = WithText(flags, FALSE)

\* C40: update_from_response records the text of each part exactly once: a
\* part with non-empty text contributes exactly one entry to
\* thinking_summary or to the final-answer segments, also when the part
\* object exposes a serialization of itself (model_dump or to_dict) that
\* contains the same text.
C40_EachTextOnce == [][UpdateReport => OncePerPart(resolved')]_vars

\* the same for parts that expose no serialization of themselves
C40_PlainPartsOnce ==
    [][UpdateReport =>
          ((\A i \in 1..Len(resolved') : ~resolved'[i].part.dump)
              => OncePerPart(resolved'))]_vars

\* a response of two parts without serialization was recorded: one thinking
\* entry and one final-answer segment
C40_PlainRecorded ==
    /\ updates = 1
    /\ response = Some(Single(<<Plain(ThoughtPart), Plain(AnswerPart)>>, None))
    /\ Len(report.thinking_summary) = 1
    /\ SegmentsIn(report.final_analysis) = 1

====
